---- MODULE Spec2Model ----
(***************************************************************************)
(* Model of WebGateScanner-DNSSECAnalyzer: the delv text parsers           *)
(* (pkg/models/dnsrecords), the Assessment aggregate (pkg/models) and the  *)
(* scan orchestrator (internal/scanner).                                   *)
(*                                                                         *)
(* Text is kept as TLA+ strings and handled character by character, the    *)
(* way the Go standard library functions used by the code handle it.       *)
(* Unsigned 32-bit quantities are kept as two 16-bit limbs [hi, lo] and    *)
(* 64-bit second counts as [q, r] with value q*65536 + r, because the      *)
(* model checker's integers are 32 bits wide.                              *)
(***************************************************************************)
EXTENDS Integers, Sequences, FiniteSets, TLC

VARIABLES
  parsers,    \* Scanner.parsers: record-type label -> parser object (heap cell)
  queue,      \* URLs still to be scanned, in order
  scan,       \* the Scan call in progress (its locals and position)
  returned,   \* the values returned by the Scan calls so far, oldest first
  now,        \* the clock read by time.Now()
  call,       \* a single call of a parser or of Compare: operation and inputs
  result      \* <<>> until the call of "call" has run, then <<its outcome>>

vars == <<parsers, queue, scan, returned, now, call, result>>

(***************************************************************************)
(* Go strings: package strings, strconv, regexp as used by the parsers.    *)
(***************************************************************************)

\* s[i] as a one-character string, "" outside the string
At(s, i) == IF i >= 1 /\ i <= Len(s) THEN SubSeq(s, i, i) ELSE ""

\* s[i:] in Go terms, with i counted from 1
From(s, i) == SubSeq(s, i, Len(s))

\* strings.HasPrefix
HasPrefix(s, p) == Len(s) >= Len(p) /\ SubSeq(s, 1, Len(p)) = p

\* strings.HasSuffix
HasSuffix(s, p) == Len(s) >= Len(p) /\ SubSeq(s, Len(s) - Len(p) + 1, Len(s)) = p

\* the least of a set of positions, 0 when there is none
FirstPosition(hits) ==
  IF hits = {} THEN 0 ELSE CHOOSE i \in hits : \A j \in hits : i <= j

\* strings.Index, counted from 1; 0 when sub does not occur (Go: -1)
Index(s, sub) ==
  FirstPosition({i \in 1..(Len(s) - Len(sub) + 1) : SubSeq(s, i, i + Len(sub) - 1) = sub})

\* strings.Contains
Contains(s, sub) == Index(s, sub) # 0

\* strings.TrimSuffix
TrimSuffix(s, suf) ==
  IF HasSuffix(s, suf) THEN SubSeq(s, 1, Len(s) - Len(suf)) ELSE s

\* strings.TrimPrefix
TrimPrefix(s, p) == IF HasPrefix(s, p) THEN From(s, Len(p) + 1) ELSE s

\* strings.Split(s, sep) for a non-empty sep: always at least one element
RECURSIVE Split(_, _)
Split(s, sep) ==
  LET i == Index(s, sep)
  IN IF i = 0 THEN <<s>>
     ELSE <<SubSeq(s, 1, i - 1)>> \o Split(From(s, i + Len(sep)), sep)

\* strings.Join
RECURSIVE Join(_, _)
Join(parts, sep) ==
  IF Len(parts) = 0 THEN ""
  ELSE IF Len(parts) = 1 THEN parts[1]
  ELSE parts[1] \o sep \o Join(Tail(parts), sep)

\* unicode.IsSpace on the characters a TLA+ string can hold; also regexp \s
IsSpace(c) == c \in {" ", "\t", "\n", "\r", "\f"}

\* the first position from i on that holds a space (or not), Len(s) + 1 if none
NextAt(s, i, space) ==
  LET stop(j) == j > Len(s) \/ (IsSpace(At(s, j)) = space)
  IN CHOOSE j \in i..(Len(s) + 1) : stop(j) /\ \A k \in i..(j - 1) : ~stop(k)

\* strings.Fields: the maximal runs of non-space characters
RECURSIVE FieldsFrom(_, _)
FieldsFrom(s, i) ==
  LET b == NextAt(s, i, FALSE)
      e == NextAt(s, b, TRUE)
  IN IF b > Len(s) THEN <<>>
     ELSE <<SubSeq(s, b, e - 1)>> \o FieldsFrom(s, e)

Fields(s) == FieldsFrom(s, 1)

\* strings.TrimSpace
RECURSIVE TrimLeftSpace(_)
TrimLeftSpace(s) ==
  IF s # "" /\ IsSpace(At(s, 1)) THEN TrimLeftSpace(From(s, 2)) ELSE s

RECURSIVE TrimRightSpace(_)
TrimRightSpace(s) ==
  IF s # "" /\ IsSpace(At(s, Len(s)))
  THEN TrimRightSpace(SubSeq(s, 1, Len(s) - 1)) ELSE s

TrimSpace(s) == TrimRightSpace(TrimLeftSpace(s))

DigitChars == "0123456789"

IsDigit(c) == c # "" /\ Contains(DigitChars, c)

DigitVal(c) == Index(DigitChars, c) - 1

\* regexp word character: [0-9A-Za-z_]
IsWordChar(c) ==
  c # "" /\ Contains("0123456789ABCDEFGHIJKLMNOPQRSTUVWXYZabcdefghijklmnopqrstuvwxyz_", c)

\* the end of the run of \s characters that starts at position i
RECURSIVE SkipSpace(_, _)
SkipSpace(s, i) == IF IsSpace(At(s, i)) THEN SkipSpace(s, i + 1) ELSE i

\* regexp `\b<w1>\s+<w2>\b` matched at position i of s
MatchAt(s, w1, w2, i) ==
  LET j == i + Len(w1)
      k == SkipSpace(s, j)
  IN /\ SubSeq(s, i, j - 1) = w1
     /\ ~IsWordChar(At(s, i - 1))
     /\ k > j
     /\ k + Len(w2) - 1 <= Len(s)
     /\ SubSeq(s, k, k + Len(w2) - 1) = w2
     /\ ~IsWordChar(At(s, k + Len(w2)))

\* regexp.MustCompile(`\b<w1>\s+<w2>\b`).MatchString(s)
MatchString(w1, w2, s) ==
  \E i \in 1..Len(s) : i + Len(w1) - 1 <= Len(s) /\ MatchAt(s, w1, w2, i)

\* strconv.Quote for text without quotes, backslashes or control characters
Quote(s) == "\"" \o s \o "\""

(***************************************************************************)
(* Fixed-width unsigned integers.                                          *)
(***************************************************************************)
Limb == 2 ^ 16

U32(hi, lo) == [hi |-> hi, lo |-> lo]

Zero32 == U32(0, 0)

\* strconv.ParseUint(s, 10, bitSize) for bitSize 8, 16, 32: the value as limbs
\* and the error ("" for nil).  The scan stops at the first digit that takes
\* the value over the maximum, as the library does.
RECURSIVE ParseUintFrom(_, _, _, _, _)
ParseUintFrom(s, bitSize, i, hi, lo) ==
  IF i > Len(s) THEN [val |-> U32(hi, lo), err |-> ""]
  ELSE IF ~IsDigit(At(s, i)) THEN [val |-> Zero32, err |-> "invalid syntax"]
  ELSE LET lo10 == lo * 10 + DigitVal(At(s, i))
           hi2  == hi * 10 + (lo10 \div Limb)
           lo2  == lo10 % Limb
           over == \/ hi2 >= Limb
                   \/ bitSize <= 16 /\ hi2 > 0
                   \/ bitSize = 8 /\ lo2 > 255
       IN IF over
          THEN [val |-> (IF bitSize = 32 THEN U32(Limb - 1, Limb - 1)
                         ELSE IF bitSize = 16 THEN U32(0, Limb - 1)
                         ELSE U32(0, 255)),
                err |-> "value out of range"]
          ELSE ParseUintFrom(s, bitSize, i + 1, hi2, lo2)

\* ParseUint with 32 bits whatever the width asked for
ParseUint_wide(s, bitSize) ==
  IF s = "" THEN [val |-> Zero32, err |-> "invalid syntax"]
  ELSE ParseUintFrom(s, 32, 1, 0, 0)

ParseUint(s, bitSize) ==
  IF s = "" THEN [val |-> Zero32, err |-> "invalid syntax"]
  ELSE ParseUintFrom(s, bitSize, 1, 0, 0)

\* the text of a *strconv.NumError as %v prints it
NumErrorText(s, err) == "strconv.ParseUint: parsing " \o Quote(s) \o ": " \o err

\* Go conversions uint8(x), uint16(x) of a parsed value
Uint8(v) == v.lo % 256

Uint16(v) == v.lo

(***************************************************************************)
(* time.Parse("20060102150405", v) and Time.Unix(), as parseTime uses them.*)
(***************************************************************************)
DateFormat == "20060102150405"

\* two decimal digits at positions i, i+1 (time.getnum with fixed = true)
TwoDigits(v, i) == IsDigit(At(v, i)) /\ IsDigit(At(v, i + 1))

Num2(v, i) == DigitVal(At(v, i)) * 10 + DigitVal(At(v, i + 1))

IsLeap(year) == year % 4 = 0 /\ (year % 100 # 0 \/ year % 400 = 0)

\* time.daysIn
DaysIn(month, year) ==
  IF month = 2 THEN (IF IsLeap(year) THEN 29 ELSE 28)
  ELSE IF month \in {4, 6, 9, 11} THEN 30 ELSE 31

\* days from 1970-01-01 to the given proleptic Gregorian date
DaysFromCivil(year, month, day) ==
  LET y   == IF month <= 2 THEN year - 1 ELSE year
      era == y \div 400
      yoe == y - era * 400
      mp  == IF month > 2 THEN month - 3 ELSE month + 9
      doy == (153 * mp + 2) \div 5 + day - 1
      doe == yoe * 365 + yoe \div 4 - yoe \div 100 + doy
  IN era * 146097 + doe - 719468

\* Time.Unix(): days*86400 + secondOfDay as the pair [q, r] = q*65536 + r.
\* 86400 = 65536 + 20864 and 1024*20864 = 326*65536.
UnixSeconds(days, sod) ==
  LET a   == days \div 1024
      b   == days % 1024
      low == b * 20864 + sod
  IN [q |-> days + a * 326 + low \div Limb, r |-> low % Limb]

\* the text of a *time.ParseError, up to the part that names the element
TimeErrorText(v, what) == "parsing time " \o Quote(v) \o what

BadTime(v, what) == [err |-> TimeErrorText(v, what), unix |-> [q |-> 0, r |-> 0]]

CannotParse == " as " \o Quote(DateFormat) \o ": cannot parse"

\* the end of the run of digits that starts at position i
RECURSIVE SkipDigits(_, _)
SkipDigits(v, i) == IF IsDigit(At(v, i)) THEN SkipDigits(v, i + 1) ELSE i

\* time.Parse from the layout element "15" on: the hour is at position 9 and
\* takes hlen digits, rest is the position after the seconds and their
\* fraction, if the value has one
parseClock(v, hlen, hour, rest) ==
  IF hour >= 24 THEN BadTime(v, ": hour out of range")
  ELSE IF ~TwoDigits(v, 9 + hlen) THEN BadTime(v, CannotParse)
  ELSE IF Num2(v, 9 + hlen) >= 60 THEN BadTime(v, ": minute out of range")
  ELSE IF ~TwoDigits(v, 11 + hlen) THEN BadTime(v, CannotParse)
  ELSE IF Num2(v, 11 + hlen) >= 60 THEN BadTime(v, ": second out of range")
  ELSE IF rest <= Len(v) THEN BadTime(v, ": extra text: " \o Quote(From(v, rest)))
  ELSE IF Num2(v, 7) < 1 \/ Num2(v, 7) > DaysIn(Num2(v, 5), Num2(v, 1) * 100 + Num2(v, 3))
  THEN BadTime(v, ": day out of range")
  ELSE [err  |-> "",
        unix |-> UnixSeconds(DaysFromCivil(Num2(v, 1) * 100 + Num2(v, 3), Num2(v, 5),
                                           Num2(v, 7)),
                             hour * 3600 + Num2(v, 9 + hlen) * 60 + Num2(v, 11 + hlen))]

\* the position after the seconds that end before position fi: a fractional
\* second in the value is accepted though the layout has none
AfterSeconds(v, fi) ==
  IF (At(v, fi) \in {".", ","}) /\ IsDigit(At(v, fi + 1)) THEN SkipDigits(v, fi + 1) ELSE fi

\* time.Parse from the hour on; the layout element "15" takes one digit when
\* no second digit follows
parseHour(v, hlen) ==
  parseClock(v, hlen, IF hlen = 2 THEN Num2(v, 9) ELSE DigitVal(At(v, 9)),
             AfterSeconds(v, 13 + hlen))

\* parseTime(timeStr): the seconds since the epoch, or the parse error
parseTime(v) ==
  IF Len(v) < 4 \/ ~(\A i \in 1..4 : IsDigit(At(v, i))) THEN BadTime(v, CannotParse)
  ELSE IF ~TwoDigits(v, 5) THEN BadTime(v, CannotParse)
  ELSE IF Num2(v, 5) < 1 \/ Num2(v, 5) > 12 THEN BadTime(v, ": month out of range")
  ELSE IF ~TwoDigits(v, 7) THEN BadTime(v, CannotParse)
  ELSE IF ~IsDigit(At(v, 9)) THEN BadTime(v, CannotParse)
  ELSE parseHour(v, IF IsDigit(At(v, 10)) THEN 2 ELSE 1)

\* Go conversion uint32(x) of an int64: the low 32 bits
Uint32OfInt64(x) == U32(x.q % Limb, x.r)

(***************************************************************************)
(* RRSIGRecord.Parse: one RRSIG line to a signature descriptor.            *)
(***************************************************************************)
Failure(msg) == [ok |-> FALSE, err |-> msg]

\* the value a Go function returns beside a nil error
Success(v) == [ok |-> TRUE, err |-> "", val |-> v]

\* RRSIGRecord.Parse from the conversions on: parts is strings.Fields(rrsigLine)
\* of at least 13 tokens, the other arguments are the results of the
\* conversions of parts[5..10] in Go's indices
RRSIGRecord_Fill(parts, algorithm, labels, originalTTL, expiration, inception, keyTag) ==
          IF algorithm.err # ""
          THEN Failure("invalid algorithm value '" \o parts[6] \o "' in RRSIG record: "
                       \o NumErrorText(parts[6], algorithm.err))
          ELSE IF labels.err # ""
          THEN Failure("invalid labels value '" \o parts[7] \o "' in RRSIG record: "
                       \o NumErrorText(parts[7], labels.err))
          ELSE IF originalTTL.err # ""
          THEN Failure("invalid original TTL value '" \o parts[8] \o "' in RRSIG record: "
                       \o NumErrorText(parts[8], originalTTL.err))
          ELSE IF expiration.err # ""
          THEN Failure("invalid expiration time value '" \o parts[9] \o "' in RRSIG record: "
                       \o expiration.err)
          ELSE IF inception.err # ""
          THEN Failure("invalid inception time value '" \o parts[10] \o "' in RRSIG record: "
                       \o inception.err)
          ELSE IF keyTag.err # ""
          THEN Failure("invalid key tag value '" \o parts[11] \o "' in RRSIG record: "
                       \o NumErrorText(parts[11], keyTag.err))
          ELSE Success([TypeCovered |-> parts[5],
                        Algorithm   |-> Uint8(algorithm.val),
                        Labels      |-> Uint8(labels.val),
                        OriginalTTL |-> originalTTL.val,
                        Expiration  |-> Uint32OfInt64(expiration.unix),
                        Inception   |-> Uint32OfInt64(inception.unix),
                        KeyTag      |-> Uint16(keyTag.val),
                        SignerName  |-> TrimSuffix(parts[12], "."),
                        Signature   |-> Join(SubSeq(parts, 13, Len(parts)), "")])

\* RRSIGRecord.Parse after strings.Fields: the length check, then the conversions
RRSIGRecord_ParseFields(parts) ==
  IF Len(parts) < 13 THEN Failure("invalid RRSIG record format")
  ELSE RRSIGRecord_Fill(parts, ParseUint(parts[6], 8), ParseUint(parts[7], 8),
                        ParseUint(parts[8], 32), parseTime(parts[9]),
                        parseTime(parts[10]), ParseUint(parts[11], 16))

RRSIGRecord_Parse(rrsigLine) == RRSIGRecord_ParseFields(Fields(rrsigLine))

(***************************************************************************)
(* Inputs of the signature parser: RRSIG lines built from token sequences. *)
(***************************************************************************)
\* the most signature fragments (tokens from offset 12 on) a line carries
MaxSigFragments == 3

SigFragments == <<"ZysO", "Fa2q", "2Mk=", "3nle", "X0In">>

\* the line of TestNewRRSIGRecord, with a shortened signature
BaseRRSIG(type) ==
  <<"uminho.pt.", "14400", "IN", "RRSIG", type, "5", "2", "14400",
    "20240114000002", "20231215000002", "51330", "uminho.pt.">>

TimeTokens ==
  {"20240114000002", "20231215000002", "20240229235959", "19700101000000",
   "19691231235959", "00000101000000", "21060207062815", "21060207062816",
   "99991231235959", "2024011400000", "202401140000021", "20240114000002.5",
   "20240114000002,25", "20240114000002.", "20241314000002", "20240014000002",
   "20230229000000", "20240100000000", "20240114240000", "20240114006000",
   "20240114000060", "2024011400000a", "x0240114000002", "1705190402",
   "2024-01-14T00:00:02Z"}

\* the tokens tried at each position (counted from 1) of an RRSIG line
RRSIGVariants(i) ==
  CASE i = 5  -> {"SOA", "A", "NSEC3PARAM"}
    [] i = 6  -> {"5", "05", "255", "256", "x5", "-1"}
    [] i = 7  -> {"2", "0", "300", "two"}
    [] i = 8  -> {"14400", "0", "4294967295", "4294967296", "99999999999", "1e3"}
    [] i = 9  -> TimeTokens
    [] i = 10 -> TimeTokens
    [] i = 11 -> {"51330", "65535", "65536", "0x1F", "7"}
    [] i = 12 -> {"uminho.pt.", "uminho.pt", ".", "uminho.pt..", "pt"}
    [] OTHER  -> {}

\* a token at each position that the parser rejects
RRSIGBad(i) ==
  CASE i = 6  -> {"x5"}
    [] i = 7  -> {"300"}
    [] i = 8  -> {"4294967296"}
    [] i = 9  -> {"2024011400000"}
    [] i = 10 -> {"20241314000002"}
    [] i = 11 -> {"65536"}
    [] OTHER  -> {}

RRSIGHeads ==
  UNION {{[BaseRRSIG("SOA") EXCEPT ![i] = t] : t \in RRSIGVariants(i)} : i \in 5..12}
  \cup UNION {{[BaseRRSIG("SOA") EXCEPT ![p[1]] = a, ![p[2]] = b] :
                 a \in RRSIGBad(p[1]), b \in RRSIGBad(p[2])} :
               p \in (6..11) \X (6..11)}

RRSIGTokenSeqs ==
  {h \o SubSeq(SigFragments, 1, n) : h \in RRSIGHeads, n \in 1..MaxSigFragments}
  \cup {SubSeq(BaseRRSIG("SOA"), 1, n) : n \in 0..12}

\* the ways delv lays the tokens out on the line
Layouts == {[lead |-> "", sep |-> " ", trail |-> ""],
            [lead |-> "", sep |-> "\t", trail |-> " "],
            [lead |-> "  ", sep |-> "   \t", trail |-> ""]}

LineOf(tokens, lay) == lay.lead \o Join(tokens, lay.sep) \o lay.trail

RRSIGCalls ==
  {[op |-> "RRSIG", tokens |-> t, line |-> LineOf(t, lay)] :
     t \in RRSIGTokenSeqs, lay \in Layouts}

(***************************************************************************)
(* The seven per-type parsers.  A parser object is the Go struct the Parse *)
(* method is called on; Parse writes into it and returns a pointer to it.  *)
(* An optional *RRSIGRecord is <<>> (nil) or <<descriptor>>.               *)
(***************************************************************************)
Kinds == {"A", "AAAA", "SOA", "DS", "DNSKEY", "NSEC", "NSEC3PARAM"}

SetKinds == {"A", "AAAA", "DS", "DNSKEY"}

\* &AResponse{}, &AAAAResponse{}, &DSResponse{}, &DNSKEYResponse{}
EmptyResponse ==
  [Records |-> <<>>, Validated |-> FALSE, RRSIG |-> <<>>, RawResponse |-> ""]

\* &SOARecord{}
EmptySOARecord ==
  [PrimaryNS |-> "", Contact |-> "", Serial |-> Zero32, Refresh |-> Zero32,
   Retry |-> Zero32, Expire |-> Zero32, Minimum |-> Zero32,
   Validated |-> FALSE, RRSIG |-> <<>>, RawResponse |-> ""]

\* &NSECRecord{}
EmptyNSECRecord ==
  [TTL |-> Zero32, NextDomainName |-> "", Types |-> "",
   Validated |-> FALSE, RRSIG |-> <<>>, RawResponse |-> ""]

\* &NSEC3PARAMRecord{}
EmptyNSEC3PARAMRecord ==
  [TTL |-> Zero32, HashAlgorithm |-> 0, Flags |-> 0, Iterations |-> 0,
   SaltLength |-> 0, Validated |-> FALSE, RRSIG |-> <<>>, RawResponse |-> ""]

\* NewParser with the validated flag set from the start
NewParser_validated(kind) ==
  CASE kind = "SOA"        -> [EmptySOARecord EXCEPT !.Validated = TRUE]
    [] kind = "NSEC"       -> [EmptyNSECRecord EXCEPT !.Validated = TRUE]
    [] kind = "NSEC3PARAM" -> [EmptyNSEC3PARAMRecord EXCEPT !.Validated = TRUE]
    [] OTHER               -> [EmptyResponse EXCEPT !.Validated = TRUE]

\* the zero value of the parser struct of a record type, as NewScannerDefault
\* creates it: &AResponse{}, &SOARecord{}, ...
NewParser(kind) ==
  CASE kind = "SOA"        -> EmptySOARecord
    [] kind = "NSEC"       -> EmptyNSECRecord
    [] kind = "NSEC3PARAM" -> EmptyNSEC3PARAMRecord
    [] OTHER               -> EmptyResponse

\* the outcome of handling one data line: the parser object and the error
LineOk(r) == [r |-> r, err |-> ""]

LineErr(r, msg) == [r |-> r, err |-> msg]

\* an address line that leaves the record set as it is
AddressLine_skipped(kind, r, line, parts) == LineOk(r)

\* AResponse.Parse and AAAAResponse.Parse, the `IN A` / `IN AAAA` branch;
\* here and in the branches below parts is strings.Fields(line)
AddressLine(kind, r, line, parts) ==
     IF Len(parts) < 5 THEN LineErr(r, "invalid " \o kind \o " r: " \o line)
     ELSE LET ttl == ParseUint(parts[2], 32)
          IN IF ttl.err # ""
             THEN LineErr(r, "invalid TTL '" \o parts[2] \o "' in " \o kind \o " r: "
                             \o NumErrorText(parts[2], ttl.err))
             ELSE LineOk([r EXCEPT !.Records =
                            Append(@, IF kind = "A"
                                      THEN [IPv4 |-> parts[5], OriginalTTL |-> ttl.val]
                                      ELSE [IPv6 |-> parts[5], OriginalTTL |-> ttl.val])])

\* the contact of an SOA line with its dots kept
SOAContact_kept(mbox) == TrimSuffix(mbox, ".")

\* the contact of an SOA line: the first dot after the local part becomes '@'
SOAContact(mbox) ==
  LET contact == TrimSuffix(mbox, ".")
      firstDotIndex == Index(contact, ".")
  IN IF firstDotIndex # 0
     THEN SubSeq(contact, 1, firstDotIndex - 1) \o "@" \o From(contact, firstDotIndex + 1)
     ELSE contact

\* SOARecord.Parse, the `IN SOA` branch: the fields are written one by one
SOALine(r, line, parts) ==
  LET r1      == [r EXCEPT !.PrimaryNS = TrimSuffix(parts[5], "."),
                           !.Contact = SOAContact(parts[6])]
      serial  == ParseUint(parts[7], 32)
      r2      == [r1 EXCEPT !.Serial = serial.val]
      refresh == ParseUint(parts[8], 32)
      r3      == [r2 EXCEPT !.Refresh = refresh.val]
      retry   == ParseUint(parts[9], 32)
      r4      == [r3 EXCEPT !.Retry = retry.val]
      expire  == ParseUint(parts[10], 32)
      r5      == [r4 EXCEPT !.Expire = expire.val]
      minimum == ParseUint(parts[11], 32)
      r6      == [r5 EXCEPT !.Minimum = minimum.val]
  IN IF Len(parts) < 11 THEN LineErr(r, "invalid SOA r format")
     ELSE IF serial.err # ""
     THEN LineErr(r1, "invalid serial number '" \o parts[7] \o "' in SOA r: "
                      \o NumErrorText(parts[7], serial.err))
     ELSE IF refresh.err # ""
     THEN LineErr(r2, "invalid refresh time '" \o parts[8] \o "' in SOA r: "
                      \o NumErrorText(parts[8], refresh.err))
     ELSE IF retry.err # ""
     THEN LineErr(r3, "invalid retry time '" \o parts[9] \o "' in SOA r: "
                      \o NumErrorText(parts[9], retry.err))
     ELSE IF expire.err # ""
     THEN LineErr(r4, "invalid expire time '" \o parts[10] \o "' in SOA r: "
                      \o NumErrorText(parts[10], expire.err))
     ELSE IF minimum.err # ""
     THEN LineErr(r5, "invalid minimum time '" \o parts[11] \o "' in SOA r: "
                      \o NumErrorText(parts[11], minimum.err))
     ELSE LineOk(r6)

\* the digest of a DS line cut after its first fragment
DSDigest_first(parts) == parts[8]

\* dsRecord.Digest: the fragments of the digest joined again
DSDigest(parts) == Join(SubSeq(parts, 8, Len(parts)), "")

\* DSResponse.Parse, the `IN DS` branch
DSLine(r, line, parts) ==
     IF Len(parts) < 8 THEN LineErr(r, "invalid DS r format: " \o line)
     ELSE
       LET keyTag     == ParseUint(parts[5], 16)
           algorithm  == ParseUint(parts[6], 8)
           digestType == ParseUint(parts[7], 8)
       IN IF keyTag.err # ""
          THEN LineErr(r, "invalid key tag '" \o parts[5] \o "' in DS r: "
                          \o NumErrorText(parts[5], keyTag.err))
          ELSE IF algorithm.err # ""
          THEN LineErr(r, "invalid algorithm '" \o parts[6] \o "' in DS r: "
                          \o NumErrorText(parts[6], algorithm.err))
          ELSE IF digestType.err # ""
          THEN LineErr(r, "invalid digest type '" \o parts[7] \o "' in DS r: "
                          \o NumErrorText(parts[7], digestType.err))
          ELSE LineOk([r EXCEPT !.Records =
                         Append(@, [KeyTag     |-> Uint16(keyTag.val),
                                    Algorithm  |-> Uint8(algorithm.val),
                                    DigestType |-> Uint8(digestType.val),
                                    Digest     |-> DSDigest(parts)])])

\* DNSKEYResponse.Parse, the loop over comments[1:]: rec is the record being
\* filled, err the error that stops the loop
RECURSIVE DNSKEYComments(_, _, _)
DNSKEYComments(rec, comments, i) ==
  IF i > Len(comments) THEN [rec |-> rec, err |-> ""]
  ELSE
    LET comment == comments[i]
        value   == TrimSpace(Split(comment, "=")[2])
        keyID   == ParseUint(value, 16)
        keyTypeParts == Fields(comment)
    IN IF Contains(comment, "alg =")
       THEN DNSKEYComments([rec EXCEPT !.AlgorithmName = value], comments, i + 1)
       ELSE IF Contains(comment, "key id =")
       THEN (IF keyID.err # ""
             THEN [rec |-> rec,
                   err |-> "invalid key id '" \o value \o "' in DNSKEY r: "
                           \o NumErrorText(value, keyID.err)]
             ELSE DNSKEYComments([rec EXCEPT !.KeyID = Uint16(keyID.val)], comments, i + 1))
       ELSE IF Contains(comment, "ZSK") \/ Contains(comment, "KSK")
       THEN (IF Len(keyTypeParts) > 0
             THEN DNSKEYComments([rec EXCEPT !.KeyType = keyTypeParts[1]], comments, i + 1)
             ELSE [rec |-> rec,
                   err |-> "invalid key type '" \o comment \o "' in DNSKEY r: %!v(<nil>)"])
       ELSE DNSKEYComments(rec, comments, i + 1)

\* the index (from 1) of the first token at offset 7 or later that holds ';',
\* or Len(parts) + 1 when there is none
RECURSIVE FirstSemicolonPart(_, _)
FirstSemicolonPart(parts, i) ==
  IF i > Len(parts) THEN i
  ELSE IF Contains(parts[i], ";") THEN i
  ELSE FirstSemicolonPart(parts, i + 1)

\* &DNSKEYRecord{}
EmptyDNSKEYRecord ==
  [Flags |-> 0, Protocol |-> 0, Algorithm |-> 0, PublicKey |-> "",
   KeyType |-> "", AlgorithmName |-> "", KeyID |-> 0]

\* DNSKEYResponse.Parse, the `IN DNSKEY` branch
DNSKEYLine(r, line, parts) ==
     IF Len(parts) < 8 THEN LineErr(r, "invalid DNSKEY r: " \o line)
     ELSE
       LET flags     == ParseUint(parts[5], 16)
           protocol  == ParseUint(parts[6], 8)
           algorithm == ParseUint(parts[7], 8)
           comments  == Split(Join(SubSeq(parts, 8, Len(parts)), " "), ";")
           rec0      == [EmptyDNSKEYRecord EXCEPT !.Flags = Uint16(flags.val),
                                                  !.Protocol = Uint8(protocol.val),
                                                  !.Algorithm = Uint8(algorithm.val)]
           scanned   == DNSKEYComments(rec0, comments, 2)
           stop      == FirstSemicolonPart(parts, 8)
           publicKey == Join(SubSeq(parts, 8, stop - 1), "")
       IN IF flags.err # ""
          THEN LineErr(r, "invalid flags '" \o parts[5] \o "' in DNSKEY r: "
                          \o NumErrorText(parts[5], flags.err))
          ELSE IF protocol.err # ""
          THEN LineErr(r, "invalid protocol '" \o parts[6] \o "' in DNSKEY r: "
                          \o NumErrorText(parts[6], protocol.err))
          ELSE IF algorithm.err # ""
          THEN LineErr(r, "invalid algorithm '" \o parts[7] \o "' in DNSKEY r: "
                          \o NumErrorText(parts[7], algorithm.err))
          ELSE IF Len(comments) <= 1 THEN LineErr(r, "invalid DNSKEY r: " \o line)
          ELSE IF scanned.err # "" THEN LineErr(r, scanned.err)
          ELSE IF Index(line, ";") = 0 THEN LineErr(r, "missing ';' in DNSKEY r: " \o line)
          ELSE LineOk([r EXCEPT !.Records =
                         Append(@, [scanned.rec EXCEPT !.PublicKey = publicKey])])

\* NSECRecord.Parse, the `IN NSEC` branch
NSECLine(r, line, parts) ==
     IF Len(parts) < 6 THEN LineErr(r, "invalid NSEC r: " \o line)
     ELSE LET ttl == ParseUint(parts[2], 32)
          IN IF ttl.err # ""
             THEN LineErr(r, "invalid TTL '" \o parts[2] \o "' in NSEC r: "
                             \o NumErrorText(parts[2], ttl.err))
             ELSE LineOk([r EXCEPT !.TTL = ttl.val,
                                   !.NextDomainName = parts[5],
                                   !.Types = Join(SubSeq(parts, 6, Len(parts)), ";")])

\* no salt token stands for a missing salt
SaltDash_never(tok) == FALSE

\* `if parts[7] == "-"`: the token of a missing salt
SaltDash(tok) == tok = "-"

\* NSEC3PARAMRecord.Parse, the `IN NSEC3PARAM` branch
NSEC3PARAMLine(r, line, parts) ==
  LET ttl   == ParseUint(parts[2], 32)
      r1    == [r EXCEPT !.TTL = ttl.val]
      hashAlgorithm == ParseUint(parts[5], 8)
      r2    == [r1 EXCEPT !.HashAlgorithm = Uint8(hashAlgorithm.val)]
      flags == ParseUint(parts[6], 8)
      r3    == [r2 EXCEPT !.Flags = Uint8(flags.val)]
      iterations == ParseUint(parts[7], 16)
      r4    == [r3 EXCEPT !.Iterations = Uint16(iterations.val)]
      saltLength == ParseUint(parts[8], 8)
      r5    == [r4 EXCEPT !.SaltLength =
                  IF saltLength.err # "" THEN 0 ELSE Uint8(saltLength.val)]
  IN IF Len(parts) < 8 THEN LineErr(r, "invalid NSEC3PARAMRecord r: " \o line)
     ELSE IF ttl.err # ""
     THEN LineErr(r, "invalid TTL '" \o parts[2] \o "' in NSEC3PARAMRecord r: "
                     \o NumErrorText(parts[2], ttl.err))
     ELSE IF hashAlgorithm.err # ""
     THEN LineErr(r1, "invalid Hash Algorithm '" \o parts[5] \o "' in NSEC3PARAMRecord r: "
                      \o NumErrorText(parts[5], hashAlgorithm.err))
     ELSE IF flags.err # ""
     THEN LineErr(r2, "invalid Flags '" \o parts[6] \o "' in NSEC3PARAMRecord r: "
                      \o NumErrorText(parts[6], flags.err))
     ELSE IF iterations.err # ""
     THEN LineErr(r3, "invalid Iterations '" \o parts[7] \o "' in NSEC3PARAMRecord r: "
                      \o NumErrorText(parts[7], iterations.err))
     ELSE IF saltLength.err # "" /\ ~SaltDash(parts[8])
     THEN LineErr(r4, "invalid Salt Length '" \o parts[8] \o "' in NSEC3PARAMRecord r: "
                      \o NumErrorText(parts[8], saltLength.err))
     ELSE LineOk(r5)

\* the branch of Parse taken by a line that matches `\bIN\s+<kind>\b`
DataLine(kind, r, line, parts) ==
  CASE kind \in {"A", "AAAA"} -> AddressLine(kind, r, line, parts)
    [] kind = "SOA"           -> SOALine(r, line, parts)
    [] kind = "DS"            -> DSLine(r, line, parts)
    [] kind = "DNSKEY"        -> DNSKEYLine(r, line, parts)
    [] kind = "NSEC"          -> NSECLine(r, line, parts)
    [] kind = "NSEC3PARAM"    -> NSEC3PARAMLine(r, line, parts)

\* a signature line whose failure is passed over
SignatureLine_ignored(r, sig) ==
  IF ~sig.ok THEN LineOk(r) ELSE LineOk([r EXCEPT !.RRSIG = <<sig.val>>])

\* the optional signature descriptor after RRSIGRecord.Parse returned sig
SignatureLine(r, sig) ==
  IF ~sig.ok THEN LineErr(r, sig.err) ELSE LineOk([r EXCEPT !.RRSIG = <<sig.val>>])

\* the loop body with an "; unsigned answer" line that leaves the flag as it is
Line_sticky(kind, r, line) ==
  IF HasPrefix(line, "; fully validated") THEN LineOk([r EXCEPT !.Validated = TRUE])
  ELSE IF HasPrefix(line, "; unsigned answer") THEN LineOk(r)
  ELSE IF MatchString("IN", kind, line) THEN DataLine(kind, r, line, Fields(line))
  ELSE IF MatchString("RRSIG", kind, line) THEN SignatureLine(r, RRSIGRecord_Parse(line))
  ELSE LineOk(r)

\* the body of the `for _, line := range lines` loop of the seven Parse methods
Line(kind, r, line) ==
  IF HasPrefix(line, "; fully validated") THEN LineOk([r EXCEPT !.Validated = TRUE])
  ELSE IF HasPrefix(line, "; unsigned answer") THEN LineOk([r EXCEPT !.Validated = FALSE])
  ELSE IF MatchString("IN", kind, line) THEN DataLine(kind, r, line, Fields(line))
  ELSE IF MatchString("RRSIG", kind, line) THEN SignatureLine(r, RRSIGRecord_Parse(line))
  ELSE LineOk(r)

\* what Parse hands back: the parser object as the call left it, whether the
\* returned error is nil, and the error text; the returned DNSRecordResult is
\* the pointer to the parser object when ok, nil otherwise
ParseReturn(r, ok, err) == [r |-> r, ok |-> ok, err |-> err]

\* the `for _, line := range lines` loop shared by the seven Parse methods,
\* from line i on; done is the outcome of the lines before it
RECURSIVE ParseLines(_, _, _, _)
ParseLines(kind, done, lines, i) ==
  IF done.err # "" THEN ParseReturn(done.r, FALSE, done.err)
  ELSE IF i > Len(lines) THEN ParseReturn(done.r, TRUE, "")
  ELSE ParseLines(kind, Line(kind, done.r, lines[i]), lines, i + 1)

\* Parse without the check for "resolution failed" before the line loop
Parse_unchecked(kind, r, response) ==
  ParseLines(kind, LineOk([r EXCEPT !.RawResponse = response]), Split(response, "\n"), 1)

\* (r *<Kind>).Parse(response) for the parser object r of the given kind
Parse(kind, r, response) ==
  IF Contains(response, "resolution failed")
  THEN ParseReturn(r, FALSE, "resolution failed: " \o Split(response, "\n")[1])
  ELSE ParseLines(kind, LineOk([r EXCEPT !.RawResponse = response]),
                  Split(response, "\n"), 1)

(***************************************************************************)
(* domainextractor.ExtractDomain.                                          *)
(***************************************************************************)
\* the first position of s that holds one of the characters of set, Len(s)+1 if none
FirstOf(s, set) ==
  LET stop(j) == j > Len(s) \/ At(s, j) \in set
  IN CHOOSE j \in 1..(Len(s) + 1) : stop(j) /\ \A k \in 1..(j - 1) : ~stop(k)

\* the last position of s that holds the character c, 0 if none
LastIndex(s, c) ==
  LET hit(j) == j = 0 \/ At(s, j) = c
  IN CHOOSE j \in 0..Len(s) : hit(j) /\ \A k \in (j + 1)..Len(s) : ~hit(k)

\* the host[:port] of a URL of the form
\* scheme://[userinfo@]host[:port][/path][?query][#fragment]
HostPort(urlStr) ==
  LET afterScheme == From(urlStr, Index(urlStr, "://") + 3)
      authority   == SubSeq(afterScheme, 1, FirstOf(afterScheme, {"/", "?", "#"}) - 1)
  IN From(authority, LastIndex(authority, "@") + 1)

\* the checks of url.Parse on host[:port], colon being the position of the last
\* ':' in it (0 if none), and the host name
SplitHostPort(urlStr, hostport, colon) ==
  LET port        == IF colon = 0 THEN "" ELSE From(hostport, colon + 1)
      host        == IF colon = 0 THEN hostport ELSE SubSeq(hostport, 1, colon - 1)
  IN IF Index(urlStr, "://") = 1
     THEN [host |-> "", err |-> "parse " \o Quote(urlStr) \o ": missing protocol scheme"]
     ELSE IF \E i \in 1..Len(port) : ~IsDigit(At(port, i))
     THEN [host |-> "", err |-> "parse " \o Quote(urlStr) \o ": invalid port "
                                 \o Quote(":" \o port) \o " after host"]
     ELSE IF Contains(host, " ")
     THEN [host |-> "", err |-> "parse " \o Quote(urlStr) \o ": invalid character "
                                 \o Quote(" ") \o " in host name"]
     ELSE [host |-> host, err |-> ""]

\* url.Parse(urlStr) followed by URL.Hostname()
Hostname(urlStr) ==
  SplitHostPort(urlStr, HostPort(urlStr), LastIndex(HostPort(urlStr), ":"))

\* ExtractDomain after url.Parse: parsed is the host name, or the error
DomainOf(parsed) ==
  IF parsed.err # "" THEN [domain |-> "", err |-> parsed.err]
  ELSE IF ~Contains(parsed.host, ".")
  THEN [domain |-> "", err |-> "invalid hostname or domain missing"]
  ELSE [domain |-> TrimPrefix(parsed.host, "www."), err |-> ""]

ExtractDomain(urlStr) ==
  DomainOf(Hostname(IF ~Contains(urlStr, "://") THEN "https://" \o urlStr ELSE urlStr))

(***************************************************************************)
(* models.Assessment.                                                      *)
(***************************************************************************)
\* the zero time.Time
ZeroTime == 0

\* the map of no entries
EmptyMap == [k \in {} |-> <<>>]

\* NewAssessment(url, domain) when time.Now() returns t
NewAssessment(url, domain, t) ==
  [Start |-> t, End |-> ZeroTime, Url |-> url, Domain |-> domain, Records |-> EmptyMap]

\* Begin clearing the end instant as well
Begin_cleared(a, t) == [a EXCEPT !.Start = t, !.End = ZeroTime]

\* (a *Assessment).Begin() when time.Now() returns t
Begin(a, t) == [a EXCEPT !.Start = t]

\* Finish writing the start instant in the place of the end instant
Finish_start(a, t) == [a EXCEPT !.Start = t]

\* (a *Assessment).Finish() when time.Now() returns t
Finish(a, t) == [a EXCEPT !.End = t]

\* assessment.Records[recordType] = result
PutRecord(a, recordType, res) ==
  [a EXCEPT !.Records = [k \in DOMAIN @ \cup {recordType} |->
                           IF k = recordType THEN res ELSE @[k]]]

(***************************************************************************)
(* delv output.  Lines are built from token sequences; a response is the   *)
(* lines joined by newlines.                                               *)
(***************************************************************************)
\* the data tokens (offset 4 on) of a well-formed line of each record type
GoodData(kind) ==
  CASE kind = "A"          -> <<"193.136.195.224">>
    [] kind = "AAAA"       -> <<"2001:690:22c0:201::4">>
    [] kind = "SOA"        -> <<"dns.ipb.pt.", "servicos.scom.ipb.pt.", "2023121501",
                                "14400", "7200", "1209600", "300">>
    [] kind = "DS"         -> <<"51330", "5", "1", "DF93A5A1", "7FC9091F">>
    [] kind = "DNSKEY"     -> <<"256", "3", "7", "AwEAAbQI", "ht7R2chV", ";", "ZSK;",
                                "alg", "=", "NSEC3RSASHA1", ";", "key", "id", "=", "45269">>
    [] kind = "NSEC"       -> <<"25anos.ipb.pt.", "A", "NS", "SOA", "RRSIG", "NSEC", "DNSKEY">>
    [] kind = "NSEC3PARAM" -> <<"1", "0", "10", "-">>

\* a second well-formed line of each record type
OtherData(kind) ==
  CASE kind = "A"          -> <<"193.136.195.225">>
    [] kind = "AAAA"       -> <<"2001:690:22c0:201::5">>
    [] kind = "SOA"        -> <<"ns3.ipvc.pt", "si.", "2023121969",
                                "28800", "7200", "1209600", "86400">>
    [] kind = "DS"         -> <<"45269", "7", "2", "E2D3C916F6DEEAC7">>
    [] kind = "DNSKEY"     -> <<"257", "3", "13", "AwEAAa2i", ";", "KSK;",
                                "alg", "=", "ECDSAP256SHA256", ";", "key", "id", "=", "4410">>
    [] kind = "NSEC"       -> <<"www.ipb.pt.", "NS">>
    [] kind = "NSEC3PARAM" -> <<"1", "1", "0", "8">>

DataTokens(kind, ttl, data) == <<"ipb.pt.", ttl, "IN", kind>> \o data

PlainLayout == [lead |-> "", sep |-> " ", trail |-> ""]

TabLayout == [lead |-> "", sep |-> "\t\t", trail |-> " "]

GoodLine(kind) == LineOf(DataTokens(kind, "21600", GoodData(kind)), PlainLayout)

OtherLine(kind) == LineOf(DataTokens(kind, "300", OtherData(kind)), TabLayout)

GoodRRSIGLine(kind) ==
  LineOf(BaseRRSIG(kind) \o SubSeq(SigFragments, 1, 2), PlainLayout)

FullyValidated == "; fully validated"

UnsignedAnswer == "; unsigned answer"

ResolutionFailedLine == ";; resolution failed: ncache nxrrset"

\* Response(lines): the text delv prints when it prints these lines
Response(lines) == Join(lines, "\n")

(***************************************************************************)
(* The environment of Scan: the URLs handed to it and what delv answers.   *)
(***************************************************************************)
Urls == {"https://www.ipb.pt:8080/sobre?lang=pt", "invalid-url"}

\* the URL sequences a consumer is given, one Scan call per URL
UrlSequences == {<<u1, u2>> : u1 \in Urls, u2 \in Urls}

SignedResponse(kind) ==
  Response(<<FullyValidated, GoodLine(kind), GoodRRSIGLine(kind)>>)

\* what delv prints when the name has no record of the type asked for
NegativeResponse ==
  Response(<<"; negative response, fully validated", "; " \o GoodLine("SOA")>>)

\* a domain whose every record type the resolver answers with signed data,
\* and the URLs of two requests for it
SteadyDomain == "uminho.pt"

SteadyUrls == {"www.uminho.pt", "https://uminho.pt/estudar"}

\* cmd.Run() of `delv @server domain recordType`: the error of Run ("" for nil)
\* and the captured standard output
DelvRuns(domain, recordType) ==
  IF domain = SteadyDomain THEN {[err |-> "", out |-> SignedResponse(recordType)]}
  ELSE
  {[err |-> "exit status 1", out |-> ""],
   [err |-> "", out |-> SignedResponse(recordType)]}
  \cup (IF recordType = "AAAA" THEN {[err |-> "", out |-> NegativeResponse]} ELSE {})
  \cup (IF recordType = "NSEC" THEN {[err |-> "", out |-> ResolutionFailedLine]} ELSE {})

\* domainextractor.ExtractDomain(url) of Scan, line 42, tabulated over the
\* URLs a Scan call can be given
ExtractDomainCall == [urlStr \in Urls \cup SteadyUrls |-> ExtractDomain(urlStr)]

\* the standard outputs of the delv runs that exit with status 0
Outputs(recordType) ==
  {run.out : run \in {x \in DelvRuns("ipb.pt", recordType) : x.err = ""}}

\* the number of Scan calls a consumer makes on its Scanner
ScanCalls == Len(CHOOSE urls \in UrlSequences : TRUE)

\* the states a parser object of Scanner.parsers can be in after at most n
\* Parse calls on it, and parser.Parse(out.String()) on each of them
RECURSIVE ParserObjects(_, _)
RECURSIVE ParseTable(_, _)
ParserObjects(recordType, n) ==
  IF n = 0 THEN {NewParser(recordType)}
  ELSE LET before == ParseTable(recordType, n - 1)
       IN DOMAIN before \cup {before[r][out].r :
                                r \in DOMAIN before, out \in Outputs(recordType)}

ParseTable(recordType, n) ==
  [r \in ParserObjects(recordType, n) |->
    [out \in Outputs(recordType) |-> Parse(recordType, r, out)]]

\* parser.Parse(out.String()) of Scan, line 60, tabulated over the parser
\* objects and the outputs a Scan call can meet
ParseCall == [recordType \in Kinds |-> ParseTable(recordType, ScanCalls - 1)]

(***************************************************************************)
(* scanner.Scanner.                                                        *)
(***************************************************************************)
\* NewScannerDefault: one parser object per record-type label
NewScannerDefault == [recordType \in Kinds |-> NewParser(recordType)]

\* a DNSRecordResult held in Assessment.Records: the pointer Parse returned,
\* which is the parser object Scanner.parsers holds under the same label
Ptr(recordType) == [ptr |-> recordType]

\* the Record Result a pointer leads to
Deref(res) == parsers[res.ptr]

Idle == [pc |-> "idle"]

\* what a Scan call returned: the *Assessment (<<>> for nil) and the error
\* ("" for nil), kept with the URL it was given and the delv runs it made
ScanReturn(url, delv, assessment, err) ==
  [url |-> url, delv |-> delv, assessment |-> assessment, err |-> err]

\* m[k] = v on a Go map
MapPut(m, k, v) == [x \in DOMAIN m \cup {k} |-> IF x = k THEN v ELSE m[x]]

\* Scan, lines 42-48: extract the domain, create the Assessment, Begin
ScanStart(p) ==
  /\ scan[p].pc = "idle"
  /\ queue[p] # <<>>
  /\ \E url \in {Head(queue[p])} : \E ext \in {ExtractDomainCall[url]} :
        /\ queue' = [queue EXCEPT ![p] = Tail(@)]
        /\ IF ext.err # ""
           THEN /\ returned' = Append(returned, ScanReturn(url, EmptyMap, <<>>, ext.err))
                /\ UNCHANGED <<scan, now>>
           ELSE /\ now' = now + 2
                /\ scan' = [scan EXCEPT ![p] =
                     [pc         |-> "loop",
                      url        |-> url,
                      domain     |-> ext.domain,
                      assessment |-> Begin(NewAssessment(url, ext.domain, now + 1), now + 2),
                      delv       |-> EmptyMap,
                      todo       |-> DOMAIN parsers]]
                /\ UNCHANGED returned
  /\ UNCHANGED <<parsers, call, result>>

\* ScanRecord with `continue` in the place of `return nil, parseErr` at line 62
ScanRecord_continue(p) ==
  /\ scan[p].pc = "loop"
  /\ \E recordType \in scan[p].todo :
       \E run \in DelvRuns(scan[p].domain, recordType) :
         LET delv == MapPut(scan[p].delv, recordType, run)
         IN IF run.err # ""
            THEN /\ returned' = Append(returned,
                                       ScanReturn(scan[p].url, delv, <<>>, run.err))
                 /\ scan' = [scan EXCEPT ![p] = Idle]
                 /\ UNCHANGED parsers
            ELSE \E parsed \in {ParseCall[recordType][parsers[recordType]][run.out]} :
                 /\ parsers' = [parsers EXCEPT ![recordType] = parsed.r]
                 /\ scan' = [scan EXCEPT
                       ![p].assessment = IF parsed.ok
                                         THEN PutRecord(@, recordType, Ptr(recordType))
                                         ELSE @,
                       ![p].delv = delv,
                       ![p].todo = @ \ {recordType}]
                 /\ UNCHANGED returned
  /\ UNCHANGED <<queue, now, call, result>>

\* Scan, lines 49-66: one iteration of `for recordType, parser := range s.parsers`
ScanRecord(p) ==
  /\ scan[p].pc = "loop"
  /\ \E recordType \in scan[p].todo :
       \E run \in DelvRuns(scan[p].domain, recordType) :
         LET delv == MapPut(scan[p].delv, recordType, run)
         IN IF run.err # ""
            THEN /\ returned' = Append(returned,
                                       ScanReturn(scan[p].url, delv, <<>>, run.err))
                 /\ scan' = [scan EXCEPT ![p] = Idle]
                 /\ UNCHANGED parsers
            ELSE \E parsed \in {ParseCall[recordType][parsers[recordType]][run.out]} :
                 /\ parsers' = [parsers EXCEPT ![recordType] = parsed.r]
                 /\ IF ~parsed.ok
                    THEN /\ returned' = Append(returned,
                                               ScanReturn(scan[p].url, delv, <<>>, parsed.err))
                         /\ scan' = [scan EXCEPT ![p] = Idle]
                    ELSE /\ scan' = [scan EXCEPT
                               ![p].assessment = PutRecord(@, recordType, Ptr(recordType)),
                               ![p].delv = delv,
                               ![p].todo = @ \ {recordType}]
                         /\ UNCHANGED returned
  /\ UNCHANGED <<queue, now, call, result>>

\* Scan, lines 67-69: Finish and return the Assessment
ScanFinish(p) ==
  /\ scan[p].pc = "loop"
  /\ scan[p].todo = {}
  /\ now' = now + 1
  /\ returned' = Append(returned,
                        ScanReturn(scan[p].url, scan[p].delv,
                                   <<Finish(scan[p].assessment, now + 1)>>, ""))
  /\ scan' = [scan EXCEPT ![p] = Idle]
  /\ UNCHANGED <<parsers, queue, call, result>>

NoCall == [op |-> "none"]

Consumers == {"c1"}

Init ==
  /\ parsers = NewScannerDefault
  /\ queue \in [Consumers -> UrlSequences]
  /\ scan = [p \in Consumers |-> Idle]
  /\ returned = <<>>
  /\ now = 1
  /\ call = NoCall
  /\ result = <<>>

Next ==
  \E p \in DOMAIN scan : ScanStart(p) \/ ScanRecord(p) \/ ScanFinish(p)

Spec == Init /\ [][Next]_vars

(***************************************************************************)
(* Properties of Scan.                                                     *)
(***************************************************************************)
\* the outcome of parsing a delv output with a parser object fresh from
\* NewScannerDefault
FreshParse(recordType, out) == ParseCall[recordType][NewParser(recordType)][out]

\* the record types whose delv run or whose parse failed in a Scan call
FailedTypes(e) ==
  {k \in DOMAIN e.delv : e.delv[k].err # "" \/ ~FreshParse(k, e.delv[k].out).ok}

\* the errors of the failures a Scan call met
FailureErrors(e) ==
  (IF ExtractDomainCall[e.url].err # "" THEN {ExtractDomainCall[e.url].err} ELSE {})
  \cup {IF e.delv[k].err # "" THEN e.delv[k].err ELSE FreshParse(k, e.delv[k].out).err :
          k \in FailedTypes(e)}

\* an Assessment with its end instant set and a result under every label
Completed(a) == a.End # ZeroTime /\ DOMAIN a.Records = Kinds

\* C2: every Scan call returns either a completed Assessment and no error, or
\* no Assessment and an error; it returns an error exactly when the domain
\* extraction, one delv run or one parse failed, the error is that failure's,
\* and then no Assessment is returned, however many record types had
\* succeeded before.
C2_FailFast ==
  \A i \in 1..Len(returned) :
    LET e == returned[i]
    IN /\ (e.err = "") <=> (FailureErrors(e) = {})
       /\ e.err = "" => e.assessment # <<>> /\ Completed(e.assessment[1])
       /\ e.err # "" => e.assessment = <<>> /\ e.err \in FailureErrors(e)

\* a Scan call that failed after three record types had succeeded, and a
\* Scan call that returned an Assessment
C2_Witness ==
  /\ \E i \in 1..Len(returned) :
       /\ returned[i].err # ""
       /\ Cardinality(DOMAIN returned[i].delv) >= 4
  /\ \E i \in 1..Len(returned) : returned[i].err = ""

\* true when no Scan call is in progress
AllIdle == \A p \in DOMAIN scan : scan[p].pc = "idle"

\* C3: when a Scan call has just returned an Assessment, the Record Result
\* stored under each record type equals the result of parsing that scan's
\* delv output with a fresh, empty parser.
C3_FreshResults ==
  (AllIdle /\ returned # <<>> /\ returned[Len(returned)].err = "") =>
    LET e == returned[Len(returned)]
    IN \A k \in Kinds :
         Deref(e.assessment[1].Records[k]) = FreshParse(k, e.delv[k].out).r

\* an Assessment as a reader sees it: every Record Result of its mapping read
\* through its pointer
Snapshot(a) == [a EXCEPT !.Records = [k \in DOMAIN a.Records |-> Deref(a.Records[k])]]

\* C4: no step changes a field of an Assessment that Scan has returned, nor
\* of a Record Result reachable through its mapping.
C4_Immutable ==
  [][\A i \in 1..Len(returned) :
       returned[i].assessment # <<>> =>
         Snapshot(returned[i].assessment[1])' = Snapshot(returned[i].assessment[1])]_vars

\* C6: a returned Assessment holds the Record Result of each of the seven
\* labels under that label and no other key, its end instant is set and is
\* not earlier than its start instant; while the scan is in progress the end
\* instant is zero and the mapping holds the labels handled so far.
C6_CompleteAtFinish ==
  /\ \A i \in 1..Len(returned) :
       returned[i].assessment # <<>> =>
         LET a == returned[i].assessment[1]
         IN /\ DOMAIN a.Records = Kinds
            /\ \A k \in Kinds : a.Records[k] = Ptr(k)
            /\ a.End # ZeroTime
            /\ a.End >= a.Start
  /\ \A p \in DOMAIN scan :
       scan[p].pc = "loop" =>
         /\ scan[p].assessment.End = ZeroTime
         /\ DOMAIN scan[p].assessment.Records = Kinds \ scan[p].todo

\* two Scan calls have returned an Assessment
C6_Witness ==
  /\ Len(returned) = 2
  /\ returned[1].assessment # <<>>
  /\ returned[2].assessment # <<>>

(***************************************************************************)
(* Single calls of the parsers, each on inputs drawn from a bounded set.   *)
(* The Scanner stays as NewScannerDefault built it.                        *)
(***************************************************************************)
\* a Scanner on which Scan has not been called
ScannerAtRest ==
  /\ parsers = NewScannerDefault
  /\ queue = [p \in Consumers |-> <<>>]
  /\ scan = [p \in Consumers |-> Idle]
  /\ returned = <<>>
  /\ now = 1

InitRRSIG ==
  /\ ScannerAtRest
  /\ call \in RRSIGCalls
  /\ result = <<>>

\* (&RRSIGRecord{}).Parse(call.line)
CallRRSIG ==
  /\ call.op = "RRSIG"
  /\ result = <<>>
  /\ result' = <<RRSIGRecord_Parse(call.line)>>
  /\ UNCHANGED <<parsers, queue, scan, returned, now, call>>

NextRRSIG == CallRRSIG

SpecRRSIG == InitRRSIG /\ [][NextRRSIG]_vars

(***************************************************************************)
(* Properties of the signature parser.                                     *)
(***************************************************************************)
DecimalDigits == {"0", "1", "2", "3", "4", "5", "6", "7", "8", "9"}

AllDigits(s) == s # "" /\ \A i \in 1..Len(s) : At(s, i) \in DecimalDigits

DigitOf(c) == CHOOSE d \in 0..9 : At("0123456789", d + 1) = c

\* a decimal numeral without its leading zeros
RECURSIVE StripZeros(_)
StripZeros(s) == IF Len(s) > 1 /\ At(s, 1) = "0" THEN StripZeros(From(s, 2)) ELSE s

\* the decimal numeral of a 32-bit value held as limbs
RECURSIVE Decimal(_)
Decimal(v) ==
  LET mid   == (v.hi % 10) * Limb + v.lo
      digit == At("0123456789", (mid % 10) + 1)
      rest  == U32(v.hi \div 10, mid \div 10)
  IN IF rest = Zero32 THEN digit ELSE Decimal(rest) \o digit

\* a <= b for decimal numerals of equal length
NumeralLE(a, b) ==
  \/ a = b
  \/ \E i \in 1..Len(a) :
       /\ SubSeq(a, 1, i - 1) = SubSeq(b, 1, i - 1)
       /\ DigitOf(At(a, i)) < DigitOf(At(b, i))

\* a token that is a decimal numeral of a value up to the maximum given
WellFormedNumber(tok, max) ==
  /\ AllDigits(tok)
  /\ LET t == StripZeros(tok)
     IN Len(t) < Len(max) \/ (Len(t) = Len(max) /\ NumeralLE(t, max))

Number2(s, i) == DigitOf(At(s, i)) * 10 + DigitOf(At(s, i + 1))

\* a token in the fixed 14-digit layout YYYYMMDDHHMMSS that names a date and
\* a time of day
WellFormedTime(tok) ==
  /\ Len(tok) = 14
  /\ AllDigits(tok)
  /\ Number2(tok, 5) \in 1..12
  /\ Number2(tok, 7) >= 1
  /\ Number2(tok, 7) <= DaysIn(Number2(tok, 5), Number2(tok, 1) * 100 + Number2(tok, 3))
  /\ Number2(tok, 9) <= 23
  /\ Number2(tok, 11) <= 59
  /\ Number2(tok, 13) <= 59

\* the leap years among the years 1 .. year - 1
LeapsBefore(year) ==
  (year - 1) \div 4 - (year - 1) \div 100 + (year - 1) \div 400

DaysBeforeMonth == <<0, 31, 59, 90, 120, 151, 181, 212, 243, 273, 304, 334>>

\* the seconds from 1970-01-01T00:00:00Z to the instant a well-formed token
\* names, as [q, r] with value q * 2^16 + r
Instant(tok) ==
  LET year  == Number2(tok, 1) * 100 + Number2(tok, 3)
      month == Number2(tok, 5)
      days  == 365 * (year - 1970) + LeapsBefore(year) - LeapsBefore(1970)
               + DaysBeforeMonth[month]
               + (IF month > 2 /\ IsLeap(year) THEN 1 ELSE 0)
               + Number2(tok, 7) - 1
      sod   == Number2(tok, 9) * 3600 + Number2(tok, 11) * 60 + Number2(tok, 13)
      \* 86400 = 675 * 128 and 2^16 = 512 * 128
      x     == days * 675
      low   == (x % 512) * 128 + sod
  IN [q |-> x \div 512 + low \div Limb, r |-> low % Limb]

\* the tokens of a sequence joined with nothing between them
RECURSIVE Concat(_)
Concat(tokens) ==
  IF tokens = <<>> THEN ""
  ELSE Concat(SubSeq(tokens, 1, Len(tokens) - 1)) \o tokens[Len(tokens)]

\* the positions (counted from 1) of the numeric tokens with the largest
\* value of each field
NumericTokens == {<<6, "255">>, <<7, "255">>, <<8, "4294967295">>, <<11, "65535">>}

\* a call whose line has at least 13 tokens, all numeric and timestamp tokens
\* of it well-formed
WellFormedRRSIG(tokens) ==
  /\ Len(tokens) >= 13
  /\ \A n \in NumericTokens : WellFormedNumber(tokens[n[1]], n[2])
  /\ WellFormedTime(tokens[9])
  /\ WellFormedTime(tokens[10])

\* C8: for every RRSIG line of at least 13 tokens with well-formed numeric
\* and timestamp tokens the signature parser returns a descriptor whose
\* fields are the tokens at the fixed offsets: type covered, algorithm,
\* labels, original TTL, expiration and inception as the UTC instants the
\* tokens name, key tag, signer name without one trailing dot, and the
\* signature fragments concatenated.
C8_FieldsFromTokens ==
  (result # <<>> /\ call.op = "RRSIG" /\ WellFormedRRSIG(call.tokens)) =>
    /\ result[1].ok
    /\ LET d == result[1].val
           t == call.tokens
       IN /\ d.TypeCovered = t[5]
          /\ Decimal(U32(0, d.Algorithm)) = StripZeros(t[6])
          /\ Decimal(U32(0, d.Labels)) = StripZeros(t[7])
          /\ Decimal(d.OriginalTTL) = StripZeros(t[8])
          /\ d.Expiration.hi = Instant(t[9]).q /\ d.Expiration.lo = Instant(t[9]).r
          /\ d.Inception.hi = Instant(t[10]).q /\ d.Inception.lo = Instant(t[10]).r
          /\ Decimal(U32(0, d.KeyTag)) = StripZeros(t[11])
          /\ d.SignerName = (IF HasSuffix(t[12], ".")
                             THEN SubSeq(t[12], 1, Len(t[12]) - 1) ELSE t[12])
          /\ d.Signature = Concat(SubSeq(t, 13, Len(t)))

\* the tokens of a line of at least 13 tokens that are not well-formed
Offending(tokens) ==
  {tokens[n[1]] : n \in {n \in NumericTokens : ~WellFormedNumber(tokens[n[1]], n[2])}}
  \cup {tokens[i] : i \in {i \in {9, 10} : ~WellFormedTime(tokens[i])}}

\* C9: the signature parser returns an error and no descriptor for a line of
\* fewer than 13 tokens, for a numeric token that does not parse and for an
\* expiration or inception token that is not in the 14-digit layout; in the
\* last two cases the error text carries an offending token.
C9_RejectsMalformed ==
  (result # <<>> /\ call.op = "RRSIG") =>
    /\ Len(call.tokens) < 13 => ~result[1].ok
    /\ (Len(call.tokens) >= 13 /\ Offending(call.tokens) # {}) =>
         /\ ~result[1].ok
         /\ \E tok \in Offending(call.tokens) : Contains(result[1].err, tok)

(***************************************************************************)
(* Single Parse calls: a fresh parser object of each kind on a response    *)
(* made of a few lines.                                                    *)
(***************************************************************************)
\* the most lines a response handed to a single Parse call has
MaxLines == 3

\* the fewest tokens the data line of each record type may have
MinTokens(kind) ==
  CASE kind \in {"A", "AAAA"}                -> 5
    [] kind = "SOA"                          -> 11
    [] kind \in {"DS", "DNSKEY", "NSEC3PARAM"} -> 8
    [] kind = "NSEC"                         -> 6

\* a data line of the record type that is one token short
ShortLine(kind) ==
  LineOf(SubSeq(DataTokens(kind, "86400", GoodData(kind)), 1, MinTokens(kind) - 1),
         PlainLayout)

ResponseLines(kind) ==
  {FullyValidated, UnsignedAnswer, GoodLine(kind), OtherLine(kind),
   GoodRRSIGLine(kind), ShortLine(kind), ResolutionFailedLine}

\* the responses of at most MaxLines lines
LineSeqs(kind) == UNION {[1..n -> ResponseLines(kind)] : n \in 0..MaxLines}

ParseCalls ==
  UNION {{[op |-> "Parse", kind |-> kind, lines |-> lines, response |-> Response(lines)] :
            lines \in LineSeqs(kind)} : kind \in Kinds}

InitParse ==
  /\ ScannerAtRest
  /\ call \in ParseCalls
  /\ result = <<>>

\* NewParser(kind).Parse(call.response)
CallParse ==
  /\ call.op = "Parse"
  /\ result = <<>>
  /\ result' = <<Parse(call.kind, NewParser(call.kind), call.response)>>
  /\ UNCHANGED <<parsers, queue, scan, returned, now, call>>

NextParse == CallParse

SpecParse == InitParse /\ [][NextParse]_vars

(***************************************************************************)
(* Properties of a single Parse call.                                      *)
(***************************************************************************)
\* true when the text holds the words at some position
Occurs(text, words) ==
  \E i \in 1..(Len(text) - Len(words) + 1) : SubSeq(text, i, i + Len(words) - 1) = words

\* true when the line begins with the marker
Begins(line, marker) ==
  Len(line) >= Len(marker) /\ SubSeq(line, 1, Len(marker)) = marker

\* true when some line of the call begins with the marker
AnyLineBegins(lines, marker) == \E i \in 1..Len(lines) : Begins(lines[i], marker)

ParseDone == result # <<>> /\ call.op = "Parse"

\* C1: a response that holds "resolution failed" anywhere makes Parse of each
\* of the seven kinds return no result and the error "resolution failed: "
\* followed by the first line of the response, whatever marker, data or
\* RRSIG lines the response also holds.
C1_ResolutionFailed ==
  (ParseDone /\ Occurs(call.response, "resolution failed")) =>
    /\ ~result[1].ok
    /\ Occurs(result[1].err, "resolution failed")
    /\ result[1].err = "resolution failed: " \o call.lines[1]

\* a call of the SOA parser on a validated, signed answer whose last line is
\* the resolution failure
C1_Witness ==
  /\ ParseDone
  /\ call.kind = "SOA"
  /\ call.lines = <<FullyValidated, GoodLine("SOA"), ResolutionFailedLine>>
  /\ ~result[1].ok

\* C5 as amended: when Parse on a fresh parser object succeeds, a response
\* that begins with the line "; fully validated" and has no line beginning
\* with "; unsigned answer" yields validated = true; one that begins with
\* "; unsigned answer" and has no line beginning with "; fully validated"
\* yields validated = false; one with no marker line yields validated = false.
C5_ValidatedAmended ==
  (ParseDone /\ result[1].ok) =>
    LET first(marker) == call.lines # <<>> /\ Begins(call.lines[1], marker)
    IN /\ (first(FullyValidated) /\ ~AnyLineBegins(call.lines, UnsignedAnswer))
            => result[1].r.Validated
       /\ (first(UnsignedAnswer) /\ ~AnyLineBegins(call.lines, FullyValidated))
            => ~result[1].r.Validated
       /\ (~AnyLineBegins(call.lines, FullyValidated)
           /\ ~AnyLineBegins(call.lines, UnsignedAnswer))
            => ~result[1].r.Validated

\* a successful call on a response that begins with "; fully validated" and
\* goes on with a data line and its RRSIG line
C5_Witness ==
  /\ ParseDone
  /\ call.lines = <<FullyValidated, GoodLine(call.kind), GoodRRSIGLine(call.kind)>>
  /\ result[1].ok
  /\ result[1].r.Validated

\* C5 as stated: when Parse on a fresh parser object succeeds, a response
\* that begins with the line "; fully validated" yields validated = true, one
\* that begins with "; unsigned answer" yields validated = false, one with no
\* marker line yields validated = false.
C5_ValidatedAsStated ==
  (ParseDone /\ result[1].ok) =>
    LET first(marker) == call.lines # <<>> /\ Begins(call.lines[1], marker)
    IN /\ first(FullyValidated) => result[1].r.Validated
       /\ first(UnsignedAnswer) => ~result[1].r.Validated
       /\ (~AnyLineBegins(call.lines, FullyValidated)
           /\ ~AnyLineBegins(call.lines, UnsignedAnswer))
            => ~result[1].r.Validated

\* C10: a response without "resolution failed" that holds a line matching
\* the parser's own "IN <TYPE>" pattern with fewer tokens than the kind's
\* minimum makes Parse return no result and an error that names the record
\* kind and contains such a line.
C10_TooFewTokens ==
  (ParseDone /\ ~Occurs(call.response, "resolution failed")) =>
    LET short == {i \in 1..Len(call.lines) : call.lines[i] = ShortLine(call.kind)}
    IN short # {} =>
         /\ ~result[1].ok
         /\ Occurs(result[1].err, call.kind)
         /\ \E i \in short : Occurs(result[1].err, call.lines[i])

(***************************************************************************)
(* Compare of the Record Results and of the typed records.                 *)
(***************************************************************************)
\* (r *RRSIGRecord).Compare(b) on optional descriptors (<<>> is nil)
RRSIGRecord_Compare(r, b) ==
  IF r = <<>> /\ b = <<>> THEN TRUE
  ELSE IF r = <<>> \/ b = <<>> THEN FALSE
  ELSE /\ r[1].TypeCovered = b[1].TypeCovered
       /\ r[1].Algorithm = b[1].Algorithm
       /\ r[1].Labels = b[1].Labels
       /\ r[1].OriginalTTL = b[1].OriginalTTL
       /\ r[1].Expiration = b[1].Expiration
       /\ r[1].Inception = b[1].Inception
       /\ r[1].KeyTag = b[1].KeyTag
       /\ r[1].SignerName = b[1].SignerName
       /\ r[1].Signature = b[1].Signature

ARecord_Compare(r, b) == r.IPv4 = b.IPv4

AAAARecord_Compare(r, b) == r.IPv6 = b.IPv6

DSRecord_Compare(r, b) ==
  /\ r.KeyTag = b.KeyTag
  /\ r.Algorithm = b.Algorithm
  /\ r.DigestType = b.DigestType
  /\ r.Digest = b.Digest

DNSKEYRecord_Compare(r, b) ==
  /\ r.Flags = b.Flags
  /\ r.Protocol = b.Protocol
  /\ r.Algorithm = b.Algorithm
  /\ r.PublicKey = b.PublicKey
  /\ r.KeyType = b.KeyType
  /\ r.AlgorithmName = b.AlgorithmName
  /\ r.KeyID = b.KeyID

\* Compare of the typed records of the kinds that hold a record list
Record_Compare(kind, r, b) ==
  CASE kind = "A"      -> ARecord_Compare(r, b)
    [] kind = "AAAA"   -> AAAARecord_Compare(r, b)
    [] kind = "DS"     -> DSRecord_Compare(r, b)
    [] kind = "DNSKEY" -> DNSKEYRecord_Compare(r, b)

\* AResponse.Compare, AAAAResponse.Compare, DNSKEYResponse.Compare
Response_Compare(kind, r, b) ==
  IF Len(r.Records) # Len(b.Records) THEN FALSE
  ELSE IF \E i \in 1..Len(r.Records) : ~Record_Compare(kind, r.Records[i], b.Records[i])
  THEN FALSE
  ELSE /\ r.Validated = b.Validated
       /\ RRSIGRecord_Compare(r.RRSIG, b.RRSIG)
       /\ r.RawResponse = b.RawResponse

DSResponse_Compare(r, b) ==
  IF Len(r.Records) # Len(b.Records) THEN FALSE
  ELSE IF \E i \in 1..Len(r.Records) : ~DSRecord_Compare(r.Records[i], b.Records[i])
  THEN FALSE
  ELSE IF r.RRSIG # <<>> /\ b.RRSIG # <<>> /\ ~RRSIGRecord_Compare(r.RRSIG, b.RRSIG)
  THEN FALSE
  ELSE IF ~(r.RRSIG # <<>> /\ b.RRSIG # <<>>) /\ ((r.RRSIG = <<>>) # (b.RRSIG = <<>>))
  THEN FALSE
  ELSE r.Validated = b.Validated /\ r.RawResponse = b.RawResponse

SOARecord_Compare(r, b) ==
  LET rrsigEqual == \/ r.RRSIG = <<>> /\ b.RRSIG = <<>>
                    \/ r.RRSIG # <<>> /\ b.RRSIG # <<>> /\ RRSIGRecord_Compare(r.RRSIG, b.RRSIG)
  IN /\ r.PrimaryNS = b.PrimaryNS
     /\ r.Contact = b.Contact
     /\ r.Serial = b.Serial
     /\ r.Refresh = b.Refresh
     /\ r.Retry = b.Retry
     /\ r.Expire = b.Expire
     /\ r.Minimum = b.Minimum
     /\ r.Validated = b.Validated
     /\ rrsigEqual
     /\ r.RawResponse = b.RawResponse

NSECRecord_Compare(r, b) ==
  /\ r.NextDomainName = b.NextDomainName
  /\ r.Types = b.Types
  /\ r.Validated = b.Validated
  /\ RRSIGRecord_Compare(r.RRSIG, b.RRSIG)
  /\ r.RawResponse = b.RawResponse

NSEC3PARAMRecord_Compare(r, b) ==
  /\ r.TTL = b.TTL
  /\ r.HashAlgorithm = b.HashAlgorithm
  /\ r.Flags = b.Flags
  /\ r.Iterations = b.Iterations
  /\ r.SaltLength = b.SaltLength
  /\ r.Validated = b.Validated
  /\ RRSIGRecord_Compare(r.RRSIG, b.RRSIG)
  /\ r.RawResponse = b.RawResponse

\* r.Compare(b) for two Record Results of the given kind
Compare(kind, r, b) ==
  CASE kind \in {"A", "AAAA", "DNSKEY"} -> Response_Compare(kind, r, b)
    [] kind = "DS"                     -> DSResponse_Compare(r, b)
    [] kind = "SOA"                    -> SOARecord_Compare(r, b)
    [] kind = "NSEC"                   -> NSECRecord_Compare(r, b)
    [] kind = "NSEC3PARAM"             -> NSEC3PARAMRecord_Compare(r, b)

(***************************************************************************)
(* Single Compare calls: a Record Result against itself and against every  *)
(* copy of it that differs in one field.                                   *)
(***************************************************************************)
BoolFields == {"Validated"}

Uint32Fields == {"OriginalTTL", "TTL", "Serial", "Refresh", "Retry", "Expire", "Minimum",
                 "Expiration", "Inception"}

StringFields == {"IPv4", "IPv6", "PrimaryNS", "Contact", "Digest", "PublicKey", "KeyType",
                 "AlgorithmName", "NextDomainName", "Types", "RawResponse", "TypeCovered",
                 "SignerName", "Signature"}

\* another value of the field's type
OtherValue(f, v) ==
  CASE f \in BoolFields   -> ~v
    [] f \in StringFields -> v \o "x"
    [] f \in Uint32Fields -> U32(v.hi, (v.lo + 1) % Limb)
    [] OTHER              -> (v + 1) % 256

\* the copies of a struct that differ from it in one scalar field
OneFieldChanged(rec) ==
  {[rec EXCEPT ![f] = OtherValue(f, @)] : f \in DOMAIN rec \ {"Records", "RRSIG"}}

\* the copies of an optional descriptor that differ from it in one field, or
\* in being present
OneChangeRRSIG(sig) ==
  IF sig = <<>> THEN {<<RRSIGRecord_Parse(GoodRRSIGLine("A")).val>>}
  ELSE {<<>>} \cup {<<d>> : d \in OneFieldChanged(sig[1])}

\* the copies of a record list that differ from it in one field of one record
\* or in the last record being there
OneChangeRecords(records) ==
  UNION {{[records EXCEPT ![i] = d] : d \in OneFieldChanged(records[i])} :
           i \in 1..Len(records)}
  \cup (IF records = <<>> THEN {} ELSE {SubSeq(records, 1, Len(records) - 1)})

\* the copies of a Record Result that differ from it in one field
OneChange(kind, r) ==
  OneFieldChanged(r)
  \cup {[r EXCEPT !.RRSIG = sig] : sig \in OneChangeRRSIG(r.RRSIG)}
  \cup (IF kind \in SetKinds
        THEN {[r EXCEPT !.Records = records] : records \in OneChangeRecords(r.Records)}
        ELSE {})

\* the Record Results compared: a signed answer, and an unsigned one of two
\* records
Compared(kind) ==
  {Parse(kind, NewParser(kind), out).r :
     out \in {SignedResponse(kind),
              Response(<<UnsignedAnswer, GoodLine(kind), OtherLine(kind)>>)}}

CompareCalls ==
  UNION {UNION {{[op |-> "Compare", kind |-> kind, a |-> a, b |-> b] :
                   b \in {a} \cup OneChange(kind, a)} : a \in Compared(kind)} :
           kind \in Kinds}

InitCompare ==
  /\ ScannerAtRest
  /\ call \in CompareCalls
  /\ result = <<>>

\* call.a.Compare(call.b)
CallCompare ==
  /\ call.op = "Compare"
  /\ result = <<>>
  /\ result' = <<Compare(call.kind, call.a, call.b)>>
  /\ UNCHANGED <<parsers, queue, scan, returned, now, call>>

NextCompare == CallCompare

SpecCompare == InitCompare /\ [][NextCompare]_vars

\* C7: Compare of two Record Results of a kind returns true when the two
\* are equal field by field, and false when one field of one of them (of the
\* result, of one of its typed records or of its signature descriptor, a
\* record's TTL included) differs.
C7_FieldComplete ==
  (result # <<>> /\ call.op = "Compare") => (result[1] <=> (call.a = call.b))

(***************************************************************************)
(* Parse of each kind on responses with a line that is none of the kind's  *)
(* own: a comment, a blank line, a line of another record type.            *)
(***************************************************************************)
\* lines beginning with ';' that are neither validation marker: what delv
\* prints ahead of a negative answer, and a record of the kind echoed in a
\* comment
CommentLines(kind) ==
  {"; negative response, fully validated", "; " \o GoodLine(kind)}

BlankLines == {"", "  "}

\* the data lines and the RRSIG lines of the other six record types
ForeignLines(kind) ==
  UNION {{GoodLine(other), GoodRRSIGLine(other)} : other \in Kinds \ {kind}}

\* the responses a line is added to: an empty one, a signed answer, an
\* unsigned answer and one whose data line is too short
BaseLines(kind) ==
  {<<>>,
   <<FullyValidated, GoodLine(kind), GoodRRSIGLine(kind)>>,
   <<UnsignedAnswer, GoodLine(kind)>>,
   <<FullyValidated, ShortLine(kind)>>}

\* lines with one more line after its first i lines
InsertAt(lines, i, line) ==
  SubSeq(lines, 1, i) \o <<line>> \o SubSeq(lines, i + 1, Len(lines))

\* Parse calls on a base response with one added line
AddedLineCalls ==
  UNION {UNION {UNION {
    {[op |-> "Parse", kind |-> kind, base |-> base, added |-> line,
      lines |-> InsertAt(base, i, line),
      response |-> Response(InsertAt(base, i, line))] :
       line \in CommentLines(kind) \cup BlankLines \cup ForeignLines(kind)} :
    i \in 0..Len(base)} : base \in BaseLines(kind)} : kind \in Kinds}

(***************************************************************************)
(* dnsrecords.NewDNSNegationInfo.                                          *)
(***************************************************************************)
\* what a call hands back: the panic that ended it ("" when it returned), the
\* *DNSNegationInfo (<<>> for nil) and the error ("" for nil)
NegationReturn(panic, info, err) == [panic |-> panic, info |-> info, err |-> err]

\* NewDNSNegationInfo, lines 83-107: nsec and nsec3param are what the two
\* Parse calls returned; a nil result fails the type assertion and the
\* function returns nil with the parser's error
NegationHalves(info, nsec, nsec3param) ==
  IF ~nsec.ok THEN NegationReturn("", <<>>, nsec.err)
  ELSE IF ~nsec3param.ok THEN NegationReturn("", <<>>, nsec3param.err)
  ELSE NegationReturn("", <<[info EXCEPT !.NSEC = <<nsec.r>>,
                                         !.NSEC3Param = <<nsec3param.r>>]>>, "")

\* NewDNSNegationInfo, lines 79-81: &DNSNegationInfo{} has a nil RawResponse,
\* and the store through it is a nil pointer dereference
NewDNSNegationInfo(responseNSEC, responseNSEC3Param) ==
  LET dnsNegationInfo == [NSEC |-> <<>>, NSEC3Param |-> <<>>, RawResponse |-> <<>>]
  IN IF dnsNegationInfo.RawResponse = <<>>
     THEN NegationReturn("runtime error: invalid memory address or nil pointer dereference",
                         <<>>, "")
     ELSE NegationHalves(
            [dnsNegationInfo EXCEPT !.RawResponse =
               <<[NSEC |-> responseNSEC, NSEC3Param |-> responseNSEC3Param]>>],
            Parse("NSEC", NewParser("NSEC"), responseNSEC),
            Parse("NSEC3PARAM", NewParser("NSEC3PARAM"), responseNSEC3Param))

\* the responses given for one of the two queries: a signed answer, an
\* unsigned one, a failed resolution and a data line that is too short
NegationTexts(kind) ==
  {SignedResponse(kind), Response(<<UnsignedAnswer, OtherLine(kind)>>),
   ResolutionFailedLine, Response(<<FullyValidated, ShortLine(kind)>>)}

NegationCalls ==
  {[op |-> "NewDNSNegationInfo", nsecText |-> a, nsec3paramText |-> b] :
     a \in NegationTexts("NSEC"), b \in NegationTexts("NSEC3PARAM")}

\* NewDNSNegationInfo(call.nsecText, call.nsec3paramText)
CallNegation ==
  /\ call.op = "NewDNSNegationInfo"
  /\ result = <<>>
  /\ result' = <<NewDNSNegationInfo(call.nsecText, call.nsec3paramText)>>
  /\ UNCHANGED <<parsers, queue, scan, returned, now, call>>

(***************************************************************************)
(* Single calls of ExtractDomain.                                          *)
(***************************************************************************)
\* the inputs: [scheme://][www.]name[:port][/path][?query]
ExtractCalls ==
  {[op |-> "ExtractDomain", name |-> name,
    urlStr |-> scheme \o www \o name \o port \o path] :
     scheme \in {"", "https://", "http://"},
     www \in {"", "www."},
     name \in {"ipb.pt", "sub.example.com", "com", "localhost", ""},
     port \in {"", ":8080"},
     path \in {"", "/sobre", "/sobre?lang=pt", "?lang=pt"}}

\* domainextractor.ExtractDomain(call.urlStr)
CallExtractDomain ==
  /\ call.op = "ExtractDomain"
  /\ result = <<>>
  /\ result' = <<ExtractDomain(call.urlStr)>>
  /\ UNCHANGED <<parsers, queue, scan, returned, now, call>>

(***************************************************************************)
(* Parse calls on responses whose data lines are built from known tokens.  *)
(***************************************************************************)
\* a Parse call on "; fully validated" followed by one line per token
\* sequence of data, laid out as lay says
DataCall(kind, data, lay, more) ==
  [op |-> "Parse", kind |-> kind, data |-> data, more |-> more,
   lines |-> <<FullyValidated>> \o [i \in 1..Len(data) |-> LineOf(data[i], lay)],
   response |-> Response(<<FullyValidated>>
                         \o [i \in 1..Len(data) |-> LineOf(data[i], lay)])]

\* what follows the public key on a DNSKEY line: the tokens, and the comment
\* sections they spell
DNSKEYTails ==
  {[tokens   |-> <<";", "ZSK;", "alg", "=", "NSEC3RSASHA1", ";", "key", "id", "=", "45269">>,
    sections |-> <<"ZSK", "alg = NSEC3RSASHA1", "key id = 45269">>],
   [tokens   |-> <<";", "key", "id", "=", "4410", ";", "alg", "=", "ECDSAP256SHA256",
                   ";", "KSK">>,
    sections |-> <<"key id = 4410", "alg = ECDSAP256SHA256", "KSK">>],
   [tokens   |-> <<";", "alg", "=", "NSEC3RSASHA1">>,
    sections |-> <<"alg = NSEC3RSASHA1">>],
   [tokens   |-> <<";">>, sections |-> <<>>],
   [tokens   |-> <<>>, sections |-> <<>>]}

DNSKEYCalls ==
  {DataCall("DNSKEY", <<<<"ipb.pt.", "86400", "IN", "DNSKEY", flags, protocol, alg>>
                        \o key \o tail.tokens>>, lay, tail.sections) :
     flags \in {"256", "257"}, protocol \in {"3", "2"}, alg \in {"7", "13"},
     key \in {<<"AwEAAbQI">>, <<"AwEAAbQI", "ht7R2chV">>},
     tail \in DNSKEYTails, lay \in {PlainLayout, TabLayout}}

\* SOA lines of 11 and 12 tokens
SOACalls ==
  {DataCall("SOA", <<<<"uminho.pt.", "21600", "IN", "SOA", ns, mbox, serial,
                       "14400", "7200", "1209600", "300">> \o extra>>, lay, <<>>) :
     ns \in {"dns.uminho.pt.", "dns.uminho.pt", "dns.uminho.pt.."},
     mbox \in {"servicos.scom.uminho.pt.", "hostmaster.", "hostmaster",
               "admin.example.com..", "."},
     serial \in {"2023121501", "007", "4294967295", "4294967296"},
     extra \in {<<>>, <<"86400">>},
     lay \in {PlainLayout, TabLayout}}

\* the fragments delv wraps a digest into
DigestFragments == <<"DF93A5A1", "7FC9091F", "E2D3C916">>

\* DS lines whose digest comes in one fragment or in several
DSCalls ==
  {DataCall("DS", <<<<"ipb.pt.", "86400", "IN", "DS", keyTag, "5", digestType>>
                    \o SubSeq(DigestFragments, from, to)>>, lay, <<>>) :
     keyTag \in {"51330", "65535", "0451"}, digestType \in {"1", "2"},
     from \in 1..Len(DigestFragments), to \in 1..Len(DigestFragments),
     lay \in {PlainLayout, TabLayout}}

\* NSEC3PARAM lines with the salt tokens delv prints and others
NSEC3PARAMCalls ==
  {DataCall("NSEC3PARAM", <<<<"ipb.pt.", ttl, "IN", "NSEC3PARAM", "1", "0", iterations,
                             salt>> \o extra>>, lay, <<>>) :
     ttl \in {"3600", "0"}, iterations \in {"10", "65535"},
     salt \in {"-", "0", "8", "007", "255", "256", "1000", "AABB", "--", "-1", "8-"},
     extra \in {<<>>, <<"AABB">>},
     lay \in {PlainLayout, TabLayout}}

\* RRSIG lines of the record type that the signature parser rejects: one
\* token short, and with a token that is no number
BadRRSIGLines(kind) ==
  {LineOf(SubSeq(BaseRRSIG(kind), 1, 12), PlainLayout),
   LineOf([BaseRRSIG(kind) EXCEPT ![6] = "x5"] \o SubSeq(SigFragments, 1, 2), TabLayout),
   LineOf([BaseRRSIG(kind) EXCEPT ![9] = "2024011400000"] \o SubSeq(SigFragments, 1, 1),
          PlainLayout)}

\* Parse calls on responses with such a line between other lines
BadSignatureCalls ==
  UNION {
    {[op |-> "Parse", kind |-> kind, before |-> before, bad |-> bad, after |-> after,
      lines |-> before \o <<bad>> \o after,
      response |-> Response(before \o <<bad>> \o after)] :
       before \in {<<>>, <<FullyValidated>>, <<FullyValidated, GoodLine(kind)>>,
                   <<UnsignedAnswer, GoodLine(kind), GoodRRSIGLine(kind)>>},
       bad \in BadRRSIGLines(kind),
       after \in {<<>>, <<OtherLine(kind)>>, <<UnsignedAnswer>>, <<FullyValidated>>,
                  <<GoodRRSIGLine(kind), OtherLine(kind)>>}} : kind \in Kinds}

\* the numeric tokens of the data line of each record type and of its RRSIG
\* line: the position of the token (counted from 1), the largest value of
\* the field and the name of the field
NumericFields(kind) ==
  (CASE kind \in {"A", "AAAA"} -> {<<"data", 2, "4294967295", "OriginalTTL">>}
     [] kind = "SOA"        -> {<<"data", 7, "4294967295", "Serial">>,
                                <<"data", 8, "4294967295", "Refresh">>,
                                <<"data", 9, "4294967295", "Retry">>,
                                <<"data", 10, "4294967295", "Expire">>,
                                <<"data", 11, "4294967295", "Minimum">>}
     [] kind = "DS"         -> {<<"data", 5, "65535", "KeyTag">>,
                                <<"data", 6, "255", "Algorithm">>,
                                <<"data", 7, "255", "DigestType">>}
     [] kind = "DNSKEY"     -> {<<"data", 5, "65535", "Flags">>,
                                <<"data", 6, "255", "Protocol">>,
                                <<"data", 7, "255", "Algorithm">>,
                                <<"data", 19, "65535", "KeyID">>}
     [] kind = "NSEC"       -> {<<"data", 2, "4294967295", "TTL">>}
     [] kind = "NSEC3PARAM" -> {<<"data", 2, "4294967295", "TTL">>,
                                <<"data", 5, "255", "HashAlgorithm">>,
                                <<"data", 6, "255", "Flags">>,
                                <<"data", 7, "65535", "Iterations">>,
                                <<"data", 8, "255", "SaltLength">>})
  \cup {<<"sig", 6, "255", "Algorithm">>, <<"sig", 7, "255", "Labels">>,
        <<"sig", 8, "4294967295", "OriginalTTL">>, <<"sig", 11, "65535", "KeyTag">>}

\* the tokens tried in the place of a number with the given largest value
NumberTokens(max) ==
  {max, "0", "007", "-1", "x5", "1e3", "-", "99999999999999999999",
   CASE max = "255" -> "256" [] max = "65535" -> "65536" [] OTHER -> "4294967296"}

\* Parse calls on a signed answer with one numeric token of its data line or
\* of its RRSIG line replaced
NumericCalls ==
  UNION {UNION {
    {LET data == DataTokens(kind, "21600", GoodData(kind))
         sig  == BaseRRSIG(kind) \o SubSeq(SigFragments, 1, 2)
         lines == <<FullyValidated,
                    LineOf(IF f[1] = "data" THEN [data EXCEPT ![f[2]] = tok] ELSE data, lay),
                    LineOf(IF f[1] = "sig" THEN [sig EXCEPT ![f[2]] = tok] ELSE sig, lay)>>
     IN [op |-> "Parse", kind |-> kind, numeric |-> tok, field |-> f,
         lines |-> lines, response |-> Response(lines)] :
       tok \in NumberTokens(f[3]), lay \in {PlainLayout, TabLayout}} :
    f \in NumericFields(kind)} : kind \in Kinds}

\* the single calls of the units, each on an input of its own
UnitCalls ==
  AddedLineCalls \cup NegationCalls \cup ExtractCalls \cup DNSKEYCalls \cup SOACalls
    \cup DSCalls \cup NSEC3PARAMCalls \cup BadSignatureCalls \cup NumericCalls

InitUnit ==
  /\ ScannerAtRest
  /\ call \in UnitCalls
  /\ result = <<>>

NextUnit == CallParse \/ CallNegation \/ CallExtractDomain

SpecUnit == InitUnit /\ [][NextUnit]_vars

\* what the claim compares: whether Parse returned an error and, if not,
\* the result without its raw text
Outcome(res) ==
  IF res.ok THEN <<TRUE, [res.r EXCEPT !.RawResponse = ""]>> ELSE <<FALSE>>

\* C11: for each of the seven parsers, adding to a response without
\* "resolution failed" a comment line that is neither validation marker, a
\* blank line, or a data or RRSIG line of another record type changes neither
\* the typed records, validated flag and signature of the result nor whether
\* Parse returns an error.
C11_OtherLinesIgnored ==
  (result # <<>> /\ call.op = "Parse" /\ "added" \in DOMAIN call) =>
    Outcome(result[1])
      = Outcome(Parse(call.kind, NewParser(call.kind), Response(call.base)))

\* C12: NewDNSNegationInfo returns the composite without an error whatever
\* the two parses do; a half is absent exactly when its parse failed and is
\* the parsed Record Result otherwise; the composite holds both raw texts as
\* they were passed in.
C12_HalvesIndependent ==
  (result # <<>> /\ call.op = "NewDNSNegationInfo") =>
    LET nsec       == Parse("NSEC", NewParser("NSEC"), call.nsecText)
        nsec3param == Parse("NSEC3PARAM", NewParser("NSEC3PARAM"), call.nsec3paramText)
    IN /\ result[1].panic = ""
       /\ result[1].err = ""
       /\ result[1].info # <<>>
       /\ result[1].info[1].RawResponse
            = <<[NSEC |-> call.nsecText, NSEC3Param |-> call.nsec3paramText]>>
       /\ result[1].info[1].NSEC = (IF nsec.ok THEN <<nsec.r>> ELSE <<>>)
       /\ result[1].info[1].NSEC3Param = (IF nsec3param.ok THEN <<nsec3param.r>> ELSE <<>>)

\* C13: ExtractDomain of an input without "://" is ExtractDomain of the
\* input behind "https://"; a hostname returned without error is not empty,
\* holds a dot, does not begin with "www." and holds nothing of a scheme,
\* port, path or query; an error comes with the empty string, and it comes
\* whenever the name behind the "www." prefix holds no dot.
C13_HostnameDerived ==
  (result # <<>> /\ call.op = "ExtractDomain") =>
    /\ ~Occurs(call.urlStr, "://") => result[1] = ExtractDomain("https://" \o call.urlStr)
    /\ result[1].err = "" =>
         /\ result[1].domain # ""
         /\ Occurs(result[1].domain, ".")
         /\ ~Begins(result[1].domain, "www.")
         /\ \A mark \in {":", "/", "?"} : ~Occurs(result[1].domain, mark)
    /\ result[1].err # "" => result[1].domain = ""
    /\ ~Occurs(call.name, ".") => result[1].err # ""

\* C14: after every Parse call, successful or failed, the raw-response field
\* of the parser object the call was made on equals the response text.
C14_RawStored ==
  ParseDone => result[1].r.RawResponse = call.response

\* a Parse call of the kind on data lines of known tokens has returned
DataDone(kind) ==
  result # <<>> /\ call.op = "Parse" /\ "data" \in DOMAIN call /\ call.kind = kind

\* the decimal numeral of a field of 8 or 16 bits
Numeral(v) == Decimal(U32(0, v))

\* the tokens from position first on that stand before the first token
\* holding ';'
BeforeSemicolon(t, first) ==
  SubSeq(t, first,
         (CHOOSE i \in first..(Len(t) + 1) :
            /\ i = Len(t) + 1 \/ Occurs(t[i], ";")
            /\ \A j \in first..(i - 1) : ~Occurs(t[j], ";")) - 1)

\* C15: for a DNSKEY data line of at least 8 tokens that has a ';' and a
\* comment behind it, Parse appends one record with flags, protocol and
\* algorithm from tokens 4, 5, 6, the public key being the tokens from
\* offset 7 up to the first token with a ';' joined without separator, the
\* algorithm name X of the section "alg = X", the key id N of the section
\* "key id = N" and the key-type label of the section ZSK or KSK; a line
\* without ';' or without comment content makes Parse fail with no record
\* appended.
C15_PublicKeyLine ==
  DataDone("DNSKEY") =>
    LET t        == call.data[1]
        sections == call.more
        rec      == result[1].r.Records[1]
    IN IF (\E i \in 1..Len(t) : Occurs(t[i], ";")) /\ sections # <<>>
       THEN /\ result[1].ok
            /\ Len(result[1].r.Records) = 1
            /\ Numeral(rec.Flags) = t[5]
            /\ Numeral(rec.Protocol) = t[6]
            /\ Numeral(rec.Algorithm) = t[7]
            /\ rec.PublicKey = Concat(BeforeSemicolon(t, 8))
            /\ \A i \in 1..Len(sections) :
                 /\ Begins(sections[i], "alg = ")
                      => "alg = " \o rec.AlgorithmName = sections[i]
                 /\ Begins(sections[i], "key id = ")
                      => "key id = " \o Numeral(rec.KeyID) = sections[i]
                 /\ sections[i] \in {"ZSK", "KSK"} => rec.KeyType = sections[i]
       ELSE /\ ~result[1].ok
            /\ result[1].r.Records = <<>>

\* v is the token without one trailing dot
OneDotRemoved(tok, v) == IF Begins(tok, v \o ".") /\ Len(tok) = Len(v) + 1
                         THEN TRUE
                         ELSE v = tok /\ (tok = "" \/ SubSeq(tok, Len(tok), Len(tok)) # ".")

\* v is c with only its first dot rewritten to '@', or c when it has no dot
FirstDotRewritten(c, v) ==
  IF Occurs(c, ".")
  THEN \E i \in 1..Len(c) :
         /\ SubSeq(c, i, i) = "."
         /\ ~Occurs(SubSeq(c, 1, i - 1), ".")
         /\ v = SubSeq(c, 1, i - 1) \o "@" \o SubSeq(c, i + 1, Len(c))
  ELSE v = c

\* C16: for every SOA data line with at least 11 tokens whose tokens 6 to 10
\* are decimal numbers of 32 bits, Parse succeeds with the primary nameserver being token 4 without one trailing dot, the contact
\* being token 5 without one trailing dot and with only its first remaining
\* dot rewritten to '@' (unchanged when no dot remains), and serial, refresh,
\* retry, expire and minimum being tokens 6 to 10; the mailbox
\* "servicos.scom.uminho.pt." yields the contact "servicos@scom.uminho.pt".
C16_AuthorityLine ==
  (DataDone("SOA") /\ WellFormedNumber(call.data[1][7], "4294967295")) =>
    LET t == call.data[1]
        r == result[1].r
    IN /\ result[1].ok
       /\ OneDotRemoved(t[5], r.PrimaryNS)
       /\ \E c \in {SubSeq(t[6], 1, n) : n \in 0..Len(t[6])} :
            OneDotRemoved(t[6], c) /\ FirstDotRewritten(c, r.Contact)
       /\ t[6] = "servicos.scom.uminho.pt." => r.Contact = "servicos@scom.uminho.pt"
       /\ Decimal(r.Serial) = StripZeros(t[7])
       /\ Decimal(r.Refresh) = t[8]
       /\ Decimal(r.Retry) = t[9]
       /\ Decimal(r.Expire) = t[10]
       /\ Decimal(r.Minimum) = t[11]

\* the SOA line of the mailbox "servicos.scom.uminho.pt." has been parsed
C16_Witness ==
  /\ DataDone("SOA")
  /\ call.data[1][6] = "servicos.scom.uminho.pt."
  /\ Len(call.data[1]) = 12
  /\ result[1].ok
  /\ result[1].r.Contact = "servicos@scom.uminho.pt"

\* C17: for every DS data line with at least 8 tokens Parse appends one record
\* whose key tag, algorithm and digest type are tokens 4, 5 and 6 and whose
\* digest is all the tokens from offset 7 on, in order, with no separator
\* between them.
C17_DigestRestored ==
  (DataDone("DS") /\ Len(call.data[1]) >= 8) =>
    LET t   == call.data[1]
        rec == result[1].r.Records[1]
    IN /\ result[1].ok
       /\ Len(result[1].r.Records) = 1
       /\ Numeral(rec.KeyTag) = StripZeros(t[5])
       /\ Numeral(rec.Algorithm) = t[6]
       /\ Numeral(rec.DigestType) = t[7]
       /\ rec.Digest = Concat(SubSeq(t, 8, Len(t)))

\* a DS line whose digest came in three fragments has been parsed
C17_Witness ==
  /\ DataDone("DS")
  /\ Len(call.data[1]) = 10
  /\ result[1].ok
  /\ result[1].r.Records[1].Digest = "DF93A5A17FC9091FE2D3C916"

\* C18: for an NSEC3PARAM data line with at least 8 tokens the TTL is token 1
\* and hash algorithm, flags, iterations and salt length are tokens 4 to 7;
\* the token "-" at offset 7 gives salt length 0 and no failure, and any other
\* token there that is not a decimal number in 0..255 makes Parse fail.
C18_SaltLength ==
  DataDone("NSEC3PARAM") =>
    LET t == call.data[1]
        r == result[1].r
    IN /\ result[1].ok <=> (t[8] = "-" \/ WellFormedNumber(t[8], "255"))
       /\ result[1].ok =>
            /\ Decimal(r.TTL) = t[2]
            /\ Numeral(r.HashAlgorithm) = t[5]
            /\ Numeral(r.Flags) = t[6]
            /\ Numeral(r.Iterations) = t[7]
            /\ Numeral(r.SaltLength) = (IF t[8] = "-" THEN "0" ELSE StripZeros(t[8]))

\* an NSEC3PARAM line with the salt token "-" has been parsed without error
C18_Witness ==
  /\ DataDone("NSEC3PARAM")
  /\ call.data[1][8] = "-"
  /\ result[1].ok
  /\ result[1].r.SaltLength = 0
  /\ result[1].r.Iterations = 65535

\* the tokens the lines of the Parse calls were built from
TokensOfLine(kind, line) ==
  CASE line = GoodLine(kind)      -> DataTokens(kind, "21600", GoodData(kind))
    [] line = OtherLine(kind)     -> DataTokens(kind, "300", OtherData(kind))
    [] line = ShortLine(kind)     ->
         SubSeq(DataTokens(kind, "86400", GoodData(kind)), 1, MinTokens(kind) - 1)
    [] line = GoodRRSIGLine(kind) -> BaseRRSIG(kind) \o SubSeq(SigFragments, 1, 2)
    [] OTHER                      -> <<>>

\* the token IN directly followed by the token of the record type
HasTypeTokens(t, kind) == \E i \in 1..(Len(t) - 1) : t[i] = "IN" /\ t[i + 1] = kind

\* the token sequences of the lines of the response that are of the pattern
\* "IN <TYPE>", in the order of the lines
RECURSIVE MatchingLines(_, _)
MatchingLines(kind, lines) ==
  IF lines = <<>> THEN <<>>
  ELSE (IF HasTypeTokens(TokensOfLine(kind, lines[1]), kind)
        THEN <<TokensOfLine(kind, lines[1])>> ELSE <<>>)
       \o MatchingLines(kind, SubSeq(lines, 2, Len(lines)))

\* the typed record is the one of the data line with tokens t
RecordOfLine(kind, rec, t) ==
  CASE kind = "A"      -> Decimal(rec.OriginalTTL) = t[2] /\ rec.IPv4 = t[5]
    [] kind = "AAAA"   -> Decimal(rec.OriginalTTL) = t[2] /\ rec.IPv6 = t[5]
    [] kind = "DS"     -> /\ Numeral(rec.KeyTag) = t[5]
                          /\ rec.Digest = Concat(SubSeq(t, 8, Len(t)))
    [] kind = "DNSKEY" -> /\ Numeral(rec.Flags) = t[5]
                          /\ rec.PublicKey = Concat(BeforeSemicolon(t, 8))

\* C19: a successful parse by the A, AAAA, DS or DNSKEY parser on a fresh
\* parser object returns exactly one typed record for each line of the
\* response of the pattern "IN <TYPE>", in the order of those lines; the
\* records of A and AAAA have the TTL of token 1 and the address of token 4.
C19_RecordPerLine ==
  (ParseDone /\ "data" \notin DOMAIN call /\ "added" \notin DOMAIN call
     /\ call.kind \in SetKinds /\ result[1].ok) =>
    LET matching == MatchingLines(call.kind, call.lines)
        recs     == result[1].r.Records
    IN /\ Len(recs) = Len(matching)
       /\ \A j \in 1..Len(recs) : RecordOfLine(call.kind, recs[j], matching[j])

\* two different address lines with a signature line between them have been
\* parsed
C19_Witness ==
  /\ ParseDone
  /\ call.kind = "A"
  /\ call.lines = <<OtherLine("A"), GoodRRSIGLine("A"), GoodLine("A")>>
  /\ result[1].ok
  /\ Len(result[1].r.Records) = 2
  /\ result[1].r.Records[1].IPv4 = "193.136.195.225"
  /\ result[1].r.Records[2].IPv4 = "193.136.195.224"

(***************************************************************************)
(* The calls on one Assessment: NewAssessment, then Begin, Finish and the  *)
(* caller's writes to the Records map in any order, while the clock runs.  *)
(* result holds the Assessment, call the last operation with the values it *)
(* was given, the Assessment it found and the instant time.Now() returned  *)
(* to it.                                                                  *)
(***************************************************************************)
\* the last instant of the clock
MaxNow == 4

AssessmentCall(op, args, before, t) ==
  [op |-> op, args |-> args, before |-> before, t |-> t]

InitAssessment ==
  /\ ScannerAtRest
  /\ call = AssessmentCall("none", <<>>, <<>>, ZeroTime)
  /\ result = <<>>

CallNewAssessment ==
  /\ result = <<>>
  /\ \E url \in Urls, domain \in {"ipb.pt", ""} :
       /\ result' = <<NewAssessment(url, domain, now)>>
       /\ call' = AssessmentCall("NewAssessment", <<url, domain>>, <<>>, now)
  /\ UNCHANGED <<parsers, queue, scan, returned, now>>

CallBegin ==
  /\ result # <<>>
  /\ result' = <<Begin(result[1], now)>>
  /\ call' = AssessmentCall("Begin", <<>>, result[1], now)
  /\ UNCHANGED <<parsers, queue, scan, returned, now>>

CallFinish ==
  /\ result # <<>>
  /\ result' = <<Finish(result[1], now)>>
  /\ call' = AssessmentCall("Finish", <<>>, result[1], now)
  /\ UNCHANGED <<parsers, queue, scan, returned, now>>

\* assessment.Records[recordType] = result, as Scan writes it
StoreRecord ==
  /\ result # <<>>
  /\ \E recordType \in {"A", "SOA"} :
       /\ result' = <<PutRecord(result[1], recordType, NewParser(recordType))>>
       /\ call' = AssessmentCall("Store", <<recordType>>, result[1], now)
  /\ UNCHANGED <<parsers, queue, scan, returned, now>>

\* time passes
Tick ==
  /\ now < MaxNow
  /\ now' = now + 1
  /\ UNCHANGED <<parsers, queue, scan, returned, call, result>>

NextAssessment == CallNewAssessment \/ CallBegin \/ CallFinish \/ StoreRecord \/ Tick

SpecAssessment == InitAssessment /\ [][NextAssessment]_vars

\* C20: NewAssessment(url, domain) gives an Assessment with start instant
\* now, end instant zero and an empty mapping (its URL and domain are the
\* given ones); Begin sets the start instant to now and leaves end instant,
\* URL, domain and mapping as they were; Finish sets the end instant to now
\* and leaves the rest as it was, also when the Assessment was finished
\* before.
C20_AssessmentFrames ==
  /\ [][CallNewAssessment =>
          /\ result'[1].Url = call'.args[1]
          /\ result'[1].Domain = call'.args[2]
          /\ result'[1].Start = now
          /\ result'[1].End = ZeroTime
          /\ DOMAIN result'[1].Records = {}]_vars
  /\ [][CallBegin =>
          /\ result'[1].Start = now
          /\ result'[1].End = result[1].End
          /\ result'[1].Url = result[1].Url
          /\ result'[1].Domain = result[1].Domain
          /\ result'[1].Records = result[1].Records]_vars
  /\ [][CallFinish =>
          /\ result'[1].End = now
          /\ result'[1].Start = result[1].Start
          /\ result'[1].Url = result[1].Url
          /\ result'[1].Domain = result[1].Domain
          /\ result'[1].Records = result[1].Records]_vars

\* Finish has been called again, at a later instant, on an Assessment that
\* holds records and was finished before: its end instant is the later one
C20_Witness ==
  /\ call.op = "Finish"
  /\ call.before.End # ZeroTime
  /\ call.before.End < call.t
  /\ DOMAIN call.before.Records = {"A", "SOA"}
  /\ result[1].End = call.t
  /\ result[1].Start < call.before.End

\* C21: every DNSKEY record of a result that Parse returned without error has
\* protocol 3; a DNSKEY data line with another protocol token gives no record
\* in a successful result.
C21_ProtocolThree ==
  (DataDone("DNSKEY") /\ result[1].ok) =>
    \A i \in 1..Len(result[1].r.Records) : result[1].r.Records[i].Protocol = 3

\* a Parse call on a response with a rejected RRSIG line has returned
BadSignatureDone == result # <<>> /\ call.op = "Parse" /\ "bad" \in DOMAIN call

\* C22: when a line is of the RRSIG pattern of the parser's own type and the
\* signature parser fails on it, Parse of each of the seven kinds returns the
\* signature parser's error and no result, whatever marker and data lines
\* stand before the line, and the lines after it are not processed: the
\* parser object is as the lines up to the failing one left it.
C22_SignatureFailure ==
  BadSignatureDone =>
    /\ ~RRSIGRecord_Parse(call.bad).ok
    /\ ~result[1].ok
    /\ result[1].err = RRSIGRecord_Parse(call.bad).err
    /\ [result[1].r EXCEPT !.RawResponse = ""]
         = [Parse(call.kind, NewParser(call.kind),
                  Response(call.before \o <<call.bad>>)).r EXCEPT !.RawResponse = ""]

\* Parse has failed on an RRSIG line that is one token short, with a marker
\* and a data line before it and a data line after it
C22_Witness ==
  /\ BadSignatureDone
  /\ call.before = <<FullyValidated, GoodLine(call.kind)>>
  /\ call.after = <<OtherLine(call.kind)>>
  /\ call.kind = "DS"
  /\ ~result[1].ok
  /\ result[1].err = "invalid RRSIG record format"
  /\ Len(result[1].r.Records) = 1

\* the delv runs a step of a Scan call in its loop leaves behind: those of the
\* call when it goes on, those it returned with when it ends
RunsAfter(p) ==
  IF scan'[p].pc = "loop" THEN scan'[p].delv ELSE returned'[Len(returned')].delv

\* C23: within a Scan call, a failed domain extraction creates no Assessment
\* and runs no resolver; each step of the loop runs the resolver for one
\* record type not run before, and when the next run starts every output so
\* far has been parsed without error and written to the mapping; the first
\* failed run or parse is the last run of the call, which returns no
\* Assessment.
C23_StepsOrdered ==
  /\ [](\A i \in 1..Len(returned) :
          ExtractDomainCall[returned[i].url].err # "" =>
            returned[i].assessment = <<>> /\ returned[i].delv = EmptyMap)
  /\ [][\A p \in DOMAIN scan :
          (scan[p].pc = "idle" /\ scan'[p].pc = "idle") =>
            parsers' = parsers /\ now' = now]_vars
  /\ [](\A p \in DOMAIN scan :
          scan[p].pc = "loop" =>
            /\ DOMAIN scan[p].assessment.Records = DOMAIN scan[p].delv
            /\ \A k \in DOMAIN scan[p].delv :
                 scan[p].delv[k].err = "" /\ FreshParse(k, scan[p].delv[k].out).ok)
  /\ [][\A p \in DOMAIN scan :
          (scan[p].pc = "loop" /\ scan'[p] # scan[p]) =>
            /\ \A k \in DOMAIN scan[p].delv :
                 k \in DOMAIN RunsAfter(p) /\ RunsAfter(p)[k] = scan[p].delv[k]
            /\ Cardinality(DOMAIN RunsAfter(p) \ DOMAIN scan[p].delv) <= 1]_vars
  /\ [](\A i \in 1..Len(returned) :
          /\ Cardinality(FailedTypes(returned[i])) <= 1
          /\ FailedTypes(returned[i]) # {} => returned[i].assessment = <<>>)

\* one Scan call has returned at a failed extraction, another at the parse
\* failure of its third resolver run
C23_Witness ==
  /\ \E i \in 1..Len(returned) : ExtractDomainCall[returned[i].url].err # ""
  /\ \E i \in 1..Len(returned) :
       /\ Cardinality(DOMAIN returned[i].delv) = 3
       /\ \E k \in FailedTypes(returned[i]) : returned[i].delv[k].err = ""

\* a Parse call on a response with a replaced numeric token has returned
NumericDone == result # <<>> /\ call.op = "Parse" /\ "numeric" \in DOMAIN call

\* the value stored in the field the call is about, as a decimal numeral
StoredNumeral(kind, f, r) ==
  LET holder == IF f[1] = "sig" THEN r.RRSIG[1]
                ELSE IF kind \in SetKinds THEN r.Records[1] ELSE r
      v      == holder[f[4]]
  IN IF f[3] = "4294967295" THEN Decimal(v) ELSE Numeral(v)

\* C24: the token of each numeric field other than the two signature
\* timestamps is stored when it is a decimal number that fits the width of
\* the field (32, 16 or 8 bits), and then the field holds that number; any
\* other token, the salt token "-" apart, makes Parse fail with an error that
\* carries the token, so no field ever holds a value cut to its width.
C24_NumbersFit ==
  NumericDone =>
    LET tok  == call.numeric
        f    == call.field
        dash == call.kind = "NSEC3PARAM" /\ f[4] = "SaltLength" /\ tok = "-"
    IN IF WellFormedNumber(tok, f[3]) \/ dash
       THEN /\ result[1].ok
            /\ StoredNumeral(call.kind, f, result[1].r)
                 = (IF dash THEN "0" ELSE StripZeros(tok))
       ELSE /\ ~result[1].ok
            /\ Occurs(result[1].err, "'" \o tok \o "'")

\* a key id of 65536 on a DNSKEY line has made Parse fail
C24_Witness ==
  /\ NumericDone
  /\ call.kind = "DNSKEY"
  /\ call.field[4] = "KeyID"
  /\ call.numeric = "65536"
  /\ ~result[1].ok
  /\ Occurs(result[1].err, "invalid key id '65536'")

\* a <= b for 32-bit values held as limbs
LimbsLE(a, b) == a.hi < b.hi \/ (a.hi = b.hi /\ a.lo <= b.lo)

\* C25: for every 14-digit timestamp YYYYMMDDHHMMSS that the signature parser
\* accepts, the stored expiration or inception is the number of seconds from
\* 1970-01-01T00:00:00Z to that UTC instant; two different accepted
\* timestamps are stored as different values and the later one never as the
\* smaller value.
C25_InstantExact ==
  (result # <<>> /\ call.op = "RRSIG" /\ result[1].ok
     /\ WellFormedTime(call.tokens[9]) /\ WellFormedTime(call.tokens[10])) =>
    LET t == call.tokens
        d == result[1].val
    IN /\ d.Expiration.hi = Instant(t[9]).q /\ d.Expiration.lo = Instant(t[9]).r
       /\ d.Inception.hi = Instant(t[10]).q /\ d.Inception.lo = Instant(t[10]).r
       /\ t[9] # t[10] => d.Expiration # d.Inception
       /\ NumeralLE(t[10], t[9]) => LimbsLE(d.Inception, d.Expiration)
       /\ NumeralLE(t[9], t[10]) => LimbsLE(d.Expiration, d.Inception)

(***************************************************************************)
(* Two claims consumed at once: ConsumeClaim runs in one goroutine per     *)
(* claimed partition, and both goroutines call Scan on the one Scanner of  *)
(* the handler.  The steps of the two Scan calls interleave.               *)
(***************************************************************************)
Workers == {"c1", "c2"}

InitConcurrent ==
  /\ parsers = NewScannerDefault
  /\ queue \in [Workers -> {<<url>> : url \in SteadyUrls}]
  /\ scan = [p \in Workers |-> Idle]
  /\ returned = <<>>
  /\ now = 1
  /\ call = NoCall
  /\ result = <<>>

SpecConcurrent == InitConcurrent /\ [][Next]_vars

\* the record types whose parser object a Scan call has called Parse on
ParsedBy(delv) == {k \in DOMAIN delv : delv[k].err = ""}

\* the Scan calls, ended or in progress, that have called Parse on the parser
\* object of the record type
Writers(k) ==
  {<<"returned", i>> : i \in {j \in 1..Len(returned) : k \in ParsedBy(returned[j].delv)}}
    \cup {<<"running", p>> :
            p \in {q \in DOMAIN scan : scan[q].pc = "loop" /\ k \in ParsedBy(scan[q].delv)}}

\* C26: when two Scan calls on one Scanner run at once, no parser object or
\* Record Result is written by both, and each call returns the Assessment it
\* would return alone: under each record type the result of parsing its own
\* delv output with a fresh parser.
C26_ScansIsolated ==
  /\ \A i \in 1..Len(returned) :
       returned[i].err = "" =>
         \A k \in Kinds :
           Deref(returned[i].assessment[1].Records[k])
             = FreshParse(k, returned[i].delv[k].out).r
  /\ \A k \in Kinds : Cardinality(Writers(k)) <= 1

(***************************************************************************)
(* groupHandler.AnalysisConsumerGroupHandler.ConsumeClaim: the messages of *)
(* one claim, each decoded, scanned, serialized, sent and marked.          *)
(***************************************************************************)
\* json.Unmarshal(message.Value, &request): the error ("" for nil) and the URL
\* of the EvaluationRequest
Unmarshal(value) ==
  IF ~(HasPrefix(value, "{") /\ HasSuffix(value, "}"))
  THEN [err |-> "invalid character looking for beginning of value", URL |-> ""]
  ELSE LET key  == "\"url\":\""
           i    == Index(value, key)
           rest == SubSeq(value, i + Len(key), Len(value))
       IN IF i = 0
          THEN [err |-> "", URL |-> ""]
          ELSE [err |-> "", URL |-> SubSeq(rest, 1, Index(rest, "\"") - 1)]

\* the message values a claim delivers
MessageValues ==
  {"{\"url\":\"www.uminho.pt\",\"institution_id\":\"7\"}",
   "{\"url\":\"invalid-url\",\"institution_id\":\"7\"}",
   "www.uminho.pt"}

Claims == [1..ScanCalls -> MessageValues]

\* the errors createKafkaMessage and producer.SendMessage can return
MarshalErrs == {"", "json: unsupported value"}
ProducerErrs == {"", "kafka: client has run out of available brokers"}

\* one step of the handler on the message at an offset, as the log shows it
Step(offset, step, ok) == [offset |-> offset, step |-> step, ok |-> ok]

\* lines 61-78 with session.MarkMessage reached after a failed SendMessage
HandleResult_marked(log, offset, scanErr, msgErr, producerErr) ==
  IF scanErr # "" THEN Append(log, Step(offset, "scan", FALSE))
  ELSE IF msgErr # ""
  THEN log \o <<Step(offset, "scan", TRUE), Step(offset, "serialize", FALSE)>>
  ELSE log \o <<Step(offset, "scan", TRUE), Step(offset, "serialize", TRUE),
                Step(offset, "send", producerErr = ""), Step(offset, "mark", TRUE)>>

\* lines 61-78: what follows h.scanner.Scan for one message
HandleResult(log, offset, scanErr, msgErr, producerErr) ==
  IF scanErr # "" THEN Append(log, Step(offset, "scan", FALSE))
  ELSE IF msgErr # ""
  THEN log \o <<Step(offset, "scan", TRUE), Step(offset, "serialize", FALSE)>>
  ELSE IF producerErr # ""
  THEN log \o <<Step(offset, "scan", TRUE), Step(offset, "serialize", TRUE),
                Step(offset, "send", FALSE)>>
  ELSE log \o <<Step(offset, "scan", TRUE), Step(offset, "serialize", TRUE),
                Step(offset, "send", TRUE), Step(offset, "mark", TRUE)>>

\* the offset of the message the loop body is working on
Offset(p) == Len(call.messages) - Len(queue[p])

\* lines 50-61: take the next message, decode it and call Scan
ClaimReceive(p) ==
  /\ call.op = "ConsumeClaim"
  /\ scan[p].pc = "idle"
  /\ queue[p] # <<>>
  /\ result.handled = Len(returned)
  /\ queue' = [queue EXCEPT ![p] = Tail(@)]
  /\ \E request \in {Unmarshal(Head(queue[p]))} :
       IF request.err # ""
       THEN /\ result' = [result EXCEPT
                 !.log = Append(@, Step(Offset(p) + 1, "decode", FALSE))]
            /\ UNCHANGED <<scan, returned, now>>
       ELSE /\ result' = [result EXCEPT
                 !.log = Append(@, Step(Offset(p) + 1, "decode", TRUE))]
            /\ \E ext \in {ExtractDomainCall[request.URL]} :
                 IF ext.err # ""
                 THEN /\ returned' = Append(returned,
                                       ScanReturn(request.URL, EmptyMap, <<>>, ext.err))
                      /\ UNCHANGED <<scan, now>>
                 ELSE /\ now' = now + 2
                      /\ scan' = [scan EXCEPT ![p] =
                           [pc         |-> "loop",
                            url        |-> request.URL,
                            domain     |-> ext.domain,
                            assessment |-> Begin(NewAssessment(request.URL, ext.domain,
                                                               now + 1), now + 2),
                            delv       |-> EmptyMap,
                            todo       |-> DOMAIN parsers]]
                      /\ UNCHANGED returned
  /\ UNCHANGED <<parsers, call>>

\* lines 61-78: Scan has returned; serialize, send, mark
ClaimDeliver(p) ==
  /\ call.op = "ConsumeClaim"
  /\ scan[p].pc = "idle"
  /\ result.handled < Len(returned)
  /\ \E msgErr \in MarshalErrs : \E producerErr \in ProducerErrs :
       result' = [result EXCEPT
         !.handled = Len(returned),
         !.log = HandleResult(@, Offset(p), returned[Len(returned)].err,
                              msgErr, producerErr)]
  /\ UNCHANGED <<parsers, queue, scan, returned, now, call>>

\* lines 50 and 80: claim.Messages() is closed and drained, return nil
ClaimReturn(p) ==
  /\ call.op = "ConsumeClaim"
  /\ scan[p].pc = "idle"
  /\ queue[p] = <<>>
  /\ result.handled = Len(returned)
  /\ result.returns = <<>>
  /\ result' = [result EXCEPT !.returns = <<"nil">>]
  /\ UNCHANGED <<parsers, queue, scan, returned, now, call>>

InitConsume ==
  /\ parsers = NewScannerDefault
  /\ \E messages \in Claims :
       /\ queue = [p \in Consumers |-> messages]
       /\ call = [op |-> "ConsumeClaim", messages |-> messages]
  /\ scan = [p \in Consumers |-> Idle]
  /\ returned = <<>>
  /\ now = 1
  /\ result = [log |-> <<>>, handled |-> 0, returns |-> <<>>]

NextConsume ==
  \E p \in Consumers :
    \/ ClaimReceive(p)
    \/ ScanRecord(p)
    \/ ScanFinish(p)
    \/ ClaimDeliver(p)
    \/ ClaimReturn(p)

\* the handler's goroutine keeps running while it has a step to take
SpecConsume == InitConsume /\ [][NextConsume]_vars /\ WF_vars(NextConsume)

\* the positions of the log where a step on the message at an offset succeeded
Passed(log, offset, step) ==
  {i \in DOMAIN log : log[i] = Step(offset, step, TRUE)}

Failed(log, offset) ==
  {i \in DOMAIN log : log[i].offset = offset /\ ~log[i].ok}

\* C27: a message is marked only after its decode, scan, serialization and
\* send succeeded, in that order; a message with a failed step is never marked
\* and the loop goes on to the later messages; once the channel is drained the
\* handler returns nil
C27_Marked ==
  \A m \in DOMAIN result.log :
    result.log[m].step = "mark" =>
      \E d \in Passed(result.log, result.log[m].offset, "decode") :
      \E s \in Passed(result.log, result.log[m].offset, "scan") :
      \E z \in Passed(result.log, result.log[m].offset, "serialize") :
      \E n \in Passed(result.log, result.log[m].offset, "send") :
        d < s /\ s < z /\ z < n /\ n < m

C27_FailedUnmarked ==
  \A offset \in DOMAIN call.messages :
    Failed(result.log, offset) # {} => Passed(result.log, offset, "mark") = {}

C27_Returned ==
  result.returns # <<>> =>
    /\ result.returns = <<"nil">>
    /\ queue["c1"] = <<>>
    /\ \A offset \in DOMAIN call.messages :
         \E i \in DOMAIN result.log :
           result.log[i].offset = offset /\ result.log[i].step = "decode"
    /\ \A offset \in DOMAIN call.messages :
         Failed(result.log, offset) # {} \/ Passed(result.log, offset, "mark") # {}

C27_MarkAfterSuccess ==
  /\ [](C27_Marked /\ C27_FailedUnmarked /\ C27_Returned)
  /\ <>(result.returns = <<"nil">>)

\* the first message failed at the send, the second was marked, nil returned
C27_Witness ==
  /\ result.returns = <<"nil">>
  /\ Step(1, "send", FALSE) \in {result.log[i] : i \in DOMAIN result.log}
  /\ Passed(result.log, 2, "mark") # {}

(***************************************************************************)
(* The parser object after a Parse call that failed.                       *)
(***************************************************************************)
\* C28: when Parse returns an error, the parser object it was called on has
\* the records, validated flag, signature descriptor and raw response it had
\* before the call.
C28_FailureLeavesObject ==
  (ParseDone /\ ~result[1].ok) => result[1].r = NewParser(call.kind)

(***************************************************************************)
(* Calls that end in a panic.                                              *)
(***************************************************************************)
\* C29: each of the seven Parse methods, the signature parser and
\* NewDNSNegationInfo ends by returning a result or an error, whatever the
\* input: no read past the tokens that were counted and no nil pointer
\* dereference.  The Parse methods and the signature parser read a token
\* only behind their length checks; the call that can end otherwise is
\* NewDNSNegationInfo.
C29_AlwaysReturns ==
  (result # <<>> /\ call.op = "NewDNSNegationInfo") => result[1].panic = ""

(***************************************************************************)
(* Responses with several validation marker lines.                         *)
(***************************************************************************)
\* the lines of a response that begin with one of the two markers
MarkerLines(lines) ==
  {i \in 1..Len(lines) : Begins(lines[i], FullyValidated) \/ Begins(lines[i], UnsignedAnswer)}

LastMarkerLine(lines) ==
  CHOOSE i \in MarkerLines(lines) : \A j \in MarkerLines(lines) : j <= i

\* C30: when a response holds several marker lines and Parse succeeds, the
\* validated flag of the result is that of the last marker line in line
\* order: true for "; fully validated", false for "; unsigned answer",
\* wherever the data and RRSIG lines stand.
C30_LastMarkerDecides ==
  (ParseDone /\ result[1].ok /\ Cardinality(MarkerLines(call.lines)) >= 2) =>
    (result[1].r.Validated
       <=> Begins(call.lines[LastMarkerLine(call.lines)], FullyValidated))

\* a validated answer whose last line is the unsigned-answer marker, with the
\* data line between the two markers
C30_Witness ==
  /\ ParseDone
  /\ call.lines = <<FullyValidated, GoodLine(call.kind), UnsignedAnswer>>
  /\ result[1].ok
  /\ ~result[1].r.Validated
  /\ Len(result[1].r.RawResponse) > 0

====
